---- MODULE Spec2Model ----
(***************************************************************************)
(* Verification model of the autosar-xsd-mangler schema pipeline:          *)
(*   - flatten.rs   combine_amounts            (specification SpecAmount)  *)
(*   - generator/perfect_hash.rs               (specification SpecHash)    *)
(*   - generator/identifier_enums.rs from_bytes (specification SpecLookup) *)
(*   - dedup.rs / main.rs dedup_types          (specification SpecDedup)   *)
(*   - merge.rs merge                          (specification SpecMerge)   *)
(*   - main.rs core                            (specification SpecCore)    *)
(*   - flatten.rs flatten_schema               (specification SpecFlatten) *)
(*   - merge.rs insertion loops, step by step  (specification SpecInsert)  *)
(*   - main.rs sanity_check                    (specification SpecSanity)  *)
(* Every specification owns a group of variables; the variables of the     *)
(* other groups stay at their idle value.                                  *)
(***************************************************************************)
EXTENDS Integers, Sequences, FiniteSets, TLC

VARIABLES
    \* ---- combine_amounts (flatten.rs) ----
    amount_1, amount_2, amount_3,   \* the arguments
    pair_result,                    \* results of the two-argument calls
    triple_result,                  \* results of the nested calls
    \* ---- make_perfect_hash (generator/perfect_hash.rs) ----
    input_strings, param1, param2, hashlen,
    buckets1, buckets2, table1, table2,
    unassigned_keys, working_set, hash_pc, prev_result,
    \* ---- generated from_bytes (generator/identifier_enums.rs) ----
    item_names, disps, hash_seed, string_table, lookup_input, lookup_result,
    \* ---- dedup_types (dedup.rs, main.rs) ----
    dedup_before, autosar_types, dedup_status, dedup_log, dedup_impl, dedup_calls,
    \* ---- merge (merge.rs) ----
    merged_before, merged_xsd, input_xsd, merge_status, merge_log,
    \* ---- core (main.rs) ----
    xsd_files, file_index, autosar_schema_version, autosar_schema, core_pc,
    core_messages, merge_order, core_merge_logs,
    \* ---- flatten_schema (flatten.rs) ----
    flatten_data, flatten_result,
    \* ---- the insertion loops of merge.rs, one incoming item at a time ----
    ins_kind, ins_list, ins_new, ins_k, ins_pos, ins_chars, ins_status, ins_log,
    \* ---- sanity_check (main.rs) ----
    sanity_types, sanity_output, sanity_pc

varsAmount == <<amount_1, amount_2, amount_3, pair_result, triple_result>>
varsHash   == <<input_strings, param1, param2, hashlen, buckets1, buckets2,
                table1, table2, unassigned_keys, working_set, hash_pc, prev_result>>
varsLookup == <<item_names, disps, hash_seed, string_table, lookup_input, lookup_result>>
varsDedup  == <<dedup_before, autosar_types, dedup_status, dedup_log, dedup_impl,
                dedup_calls>>
varsMerge  == <<merged_before, merged_xsd, input_xsd, merge_status, merge_log>>
varsCore   == <<xsd_files, file_index, autosar_schema_version, autosar_schema, core_pc,
                core_messages, merge_order, core_merge_logs>>
varsFlatten == <<flatten_data, flatten_result>>
varsSanity == <<sanity_types, sanity_output, sanity_pc>>
varsInsert == <<ins_kind, ins_list, ins_new, ins_k, ins_pos, ins_chars, ins_status,
                ins_log>>
vars == <<varsAmount, varsHash, varsLookup, varsDedup, varsMerge, varsCore, varsFlatten,
          varsInsert, varsSanity>>

IdleAmount == /\ amount_1 = "One" /\ amount_2 = "One" /\ amount_3 = "One"
              /\ pair_result = <<>> /\ triple_result = <<>>
IdleHash   == /\ input_strings = <<>> /\ param1 = 0 /\ param2 = 0 /\ hashlen = 0
              /\ buckets1 = <<>> /\ buckets2 = <<>> /\ table1 = <<>> /\ table2 = <<>>
              /\ unassigned_keys = {} /\ working_set = {}
              /\ hash_pc = "idle" /\ prev_result = <<>>
IdleLookup == /\ item_names = <<>> /\ disps = <<>> /\ hash_seed = 0
              /\ string_table = <<>>
              /\ lookup_input = <<>> /\ lookup_result = <<>>
IdleDedup  == /\ dedup_before = <<>> /\ autosar_types = <<>>
              /\ dedup_status = "idle" /\ dedup_log = <<>> /\ dedup_impl = "none"
              /\ dedup_calls = 0
IdleMerge  == /\ merged_before = <<>> /\ merged_xsd = <<>> /\ input_xsd = <<>>
              /\ merge_status = "idle" /\ merge_log = <<>>
IdleCore   == /\ xsd_files = <<>> /\ file_index = 0 /\ autosar_schema_version = <<>>
              /\ autosar_schema = <<>> /\ core_pc = "idle" /\ core_messages = <<>>
              /\ merge_order = <<>> /\ core_merge_logs = <<>>
IdleFlatten == flatten_data = <<>> /\ flatten_result = <<>>
IdleSanity == sanity_types = <<>> /\ sanity_output = {} /\ sanity_pc = "idle"
IdleInsert == /\ ins_kind = "none" /\ ins_list = <<>> /\ ins_new = <<>> /\ ins_k = 0
              /\ ins_pos = 0 /\ ins_chars = <<>> /\ ins_status = "idle"
              /\ ins_log = <<>>

(***************************************************************************)
(* ElementAmount and combine_amounts  (main.rs 40-45, flatten.rs 582-595)  *)
(***************************************************************************)
ElementAmount == {"ZeroOrOne", "One", "Any"}

\* mutant: the (One, ZeroOrOne) arm yields One
combine_amounts_OneWins(a1, a2) ==
    IF a1 = "One" /\ a2 = "ZeroOrOne" THEN "One"
    ELSE IF (a1 \in {"ZeroOrOne", "One"} /\ a2 = "ZeroOrOne")
            \/ (a1 = "ZeroOrOne" /\ a2 = "One") THEN "ZeroOrOne"
    ELSE IF a1 = "One" /\ a2 = "One" THEN "One"
    ELSE "Any"

\* mutant: Any is not absorbing on the left of One
combine_amounts_AnyLost(a1, a2) ==
    IF (a1 \in {"ZeroOrOne", "One"} /\ a2 = "ZeroOrOne")
       \/ (a1 = "ZeroOrOne" /\ a2 = "One") THEN "ZeroOrOne"
    ELSE IF a1 = "One" /\ a2 = "One" THEN "One"
    ELSE IF a1 = "Any" /\ a2 = "One" THEN "One"
    ELSE "Any"

combine_amounts(a1, a2) ==
    IF (a1 \in {"ZeroOrOne", "One"} /\ a2 = "ZeroOrOne")
       \/ (a1 = "ZeroOrOne" /\ a2 = "One") THEN "ZeroOrOne"
    ELSE IF a1 = "One" /\ a2 = "One" THEN "One"
    ELSE IF (a1 \in {"ZeroOrOne", "One", "Any"} /\ a2 = "Any")
            \/ (a1 = "Any" /\ a2 \in {"ZeroOrOne", "One"}) THEN "Any"
    ELSE "unmatched"

InitAmount ==
    /\ amount_1 \in ElementAmount
    /\ amount_2 \in ElementAmount
    /\ amount_3 \in ElementAmount
    /\ pair_result = <<>>
    /\ triple_result = <<>>
    /\ IdleHash /\ IdleLookup /\ IdleDedup /\ IdleMerge /\ IdleCore /\ IdleFlatten /\ IdleInsert /\ IdleSanity

\* the two-argument calls on the drawn arguments
CombinePairs ==
    /\ pair_result = <<>>
    /\ pair_result' = <<[ab |-> combine_amounts(amount_1, amount_2),
                         ba |-> combine_amounts(amount_2, amount_1),
                         aa |-> combine_amounts(amount_1, amount_1)]>>
    /\ UNCHANGED <<amount_1, amount_2, amount_3, triple_result>>
    /\ UNCHANGED <<varsHash, varsLookup, varsDedup, varsMerge, varsCore, varsFlatten, varsInsert, varsSanity>>

\* the nested calls, as flatten combines an inner with an outer multiplicity
CombineTriples ==
    /\ triple_result = <<>>
    /\ triple_result' =
          <<[ab_c |-> combine_amounts(combine_amounts(amount_1, amount_2), amount_3),
             a_bc |-> combine_amounts(amount_1, combine_amounts(amount_2, amount_3))]>>
    /\ UNCHANGED <<amount_1, amount_2, amount_3, pair_result>>
    /\ UNCHANGED <<varsHash, varsLookup, varsDedup, varsMerge, varsCore, varsFlatten, varsInsert, varsSanity>>

NextAmount == CombinePairs \/ CombineTriples
SpecAmount == InitAmount /\ [][NextAmount]_vars

\* rank of a multiplicity in the order One < ZeroOrOne < Any
AmountRank(a) == CASE a = "One" -> 0 [] a = "ZeroOrOne" -> 1 [] a = "Any" -> 2

\* C6: combine_amounts is commutative, associative and idempotent over
\* {ZeroOrOne, One, Any}.
C6_JoinLaws ==
    /\ pair_result # <<>> =>
          /\ pair_result[1].ab \in ElementAmount
          /\ pair_result[1].ab = pair_result[1].ba
          /\ pair_result[1].aa = amount_1
    /\ triple_result # <<>> =>
          /\ triple_result[1].ab_c \in ElementAmount
          /\ triple_result[1].ab_c = triple_result[1].a_bc

C6_Witness ==
    /\ pair_result # <<>> /\ triple_result # <<>>
    /\ amount_1 = "One" /\ amount_2 = "ZeroOrOne" /\ amount_3 = "Any"

\* C7: One is the identity on {One, ZeroOrOne}, Any absorbs every argument,
\* and the result is the least upper bound in the order One < ZeroOrOne < Any.
C7_IdentityAbsorbLub ==
    pair_result # <<>> =>
       /\ (amount_1 = "One" /\ amount_2 \in {"One", "ZeroOrOne"}) =>
             (pair_result[1].ab = amount_2 /\ pair_result[1].ba = amount_2)
       /\ (amount_1 = "Any") =>
             (pair_result[1].ab = "Any" /\ pair_result[1].ba = "Any")
       /\ pair_result[1].ab \in {amount_1, amount_2}
       /\ AmountRank(pair_result[1].ab) >= AmountRank(amount_1)
       /\ AmountRank(pair_result[1].ab) >= AmountRank(amount_2)

C7_Witness ==
    /\ pair_result # <<>>
    /\ amount_1 = "Any" /\ amount_2 = "One"

(***************************************************************************)
(* make_perfect_hash  (generator/perfect_hash.rs 64-164)                   *)
(* Strings are sequences of bytes.  The HashSet iteration order of         *)
(* unassigned_keys and working_set is unspecified (std RandomState), so    *)
(* the key taken by .iter().next() is a nondeterministic choice.           *)
(***************************************************************************)
MaxKeys    == 3     \* largest universe drawn
MaxHashLen == 3     \* largest table length drawn
U16_MAX    == 65535 \* u16::MAX, the "unset" marker of table1/table2
U16_MOD    == 65536 \* the modulus of an `as u16` cast
FoldSeed   == 100   \* initial accumulator of hashfunc

\* the byte strings the universes are drawn from
HashStringPool == {<<1>>, <<2>>, <<1, 2>>, <<2, 1>>, <<2, 2>>}
\* the multipliers drawn for param1/param2 (find_best_distribution starts at 257)
HashParamPool == {257, 258, 259}

\* data.iter().fold(100, |acc, val| acc.wrapping_mul(param).wrapping_add(val));
\* for the strings and parameters drawn here the value stays below 2^31, so
\* the wrapping operations never wrap
RECURSIVE HashFold(_, _, _)
HashFold(acc, data, param) ==
    IF data = <<>> THEN acc
    ELSE HashFold(acc * param + Head(data), Tail(data), param)

hashfunc(data, param) == HashFold(FoldSeed, data, param)

\* Ord for str: bytewise lexicographic, a proper prefix sorts first
RECURSIVE StrLess(_, _)
StrLess(s, t) ==
    IF t = <<>> THEN FALSE
    ELSE IF s = <<>> THEN TRUE
    ELSE IF Head(s) # Head(t) THEN Head(s) < Head(t)
    ELSE StrLess(Tail(s), Tail(t))

\* insertion of one string into a sorted list, after its equals (stable)
RECURSIVE SortedInsert(_, _)
SortedInsert(sorted, s) ==
    IF sorted = <<>> THEN <<s>>
    ELSE IF StrLess(s, Head(sorted)) THEN <<s>> \o sorted
    ELSE <<Head(sorted)>> \o SortedInsert(Tail(sorted), s)

\* sorted_input.sort()
RECURSIVE SortStrings(_)
SortStrings(list) ==
    IF list = <<>> THEN <<>>
    ELSE SortedInsert(SortStrings(SubSeq(list, 1, Len(list) - 1)), list[Len(list)])

\* target_ids: key -> its (last) index in sorted_input, 0-based, as u16
TargetId(list, key) ==
    LET sorted == SortStrings(list)
        idxs == {i \in 1..Len(sorted) : sorted[i] = key}
    IN  ((CHOOSE i \in idxs : \A j \in idxs : j <= i) - 1) % U16_MOD

\* lines 79-91: fill the buckets string by string; stop with Err as soon as
\* the two buckets of a string share anything but that one string
RECURSIVE FillBuckets(_, _, _, _, _, _)
FillBuckets(list, p1, p2, hlen, b1, b2) ==
    IF list = <<>> THEN [ok |-> TRUE, b1 |-> b1, b2 |-> b2]
    ELSE LET in_str == Head(list)
             hashval1 == hashfunc(in_str, p1) % hlen
             hashval2 == hashfunc(in_str, p2) % hlen
             set1 == b1[hashval1] \cup {in_str}
             set2 == b2[hashval2] \cup {in_str}
         IN  IF Cardinality(set1 \cap set2) # 1
             THEN [ok |-> FALSE, b1 |-> b1, b2 |-> b2]
             ELSE FillBuckets(Tail(list), p1, p2, hlen,
                              [b1 EXCEPT ![hashval1] = set1],
                              [b2 EXCEPT ![hashval2] = set2])

\* mutant: the negative difference is cast without adding datalen
TableDiff_NoWrap(target_id, other, datalen) ==
    (target_id - other) % U16_MOD

\* lines 130-134 / 136-140: target_id - other, plus datalen when negative, as u16
TableDiff(target_id, other, datalen) ==
    LET diff == target_id - other
    IN  (IF diff < 0 THEN diff + datalen ELSE diff) % U16_MOD

\* the sorted lists of 1..MaxKeys distinct strings of the pool
HashUniverses ==
    {SortStrings(l) : l \in
        UNION {{q \in [1..n -> HashStringPool] : \A i, j \in 1..n : i # j => q[i] # q[j]}
               : n \in 1..MaxKeys}}

InitHash ==
    /\ input_strings \in HashUniverses
    /\ param1 \in HashParamPool
    /\ param2 \in HashParamPool
    /\ hashlen \in 1..MaxHashLen
    /\ buckets1 = <<>> /\ buckets2 = <<>> /\ table1 = <<>> /\ table2 = <<>>
    /\ unassigned_keys = {} /\ working_set = {}
    /\ hash_pc = "start"
    /\ prev_result = <<>>
    /\ IdleAmount /\ IdleLookup /\ IdleDedup /\ IdleMerge /\ IdleCore /\ IdleFlatten /\ IdleInsert /\ IdleSanity

\* lines 70-107: the buckets, the early Err, the empty tables, the key sets
HashFill ==
    /\ hash_pc = "start"
    /\ LET empty == [i \in 0..(hashlen - 1) |-> {}]
           filled == FillBuckets(input_strings, param1, param2, hashlen, empty, empty)
       IN  IF filled.ok
           THEN /\ hash_pc' = "peel"
                /\ buckets1' = filled.b1
                /\ buckets2' = filled.b2
                /\ table1' = [i \in 0..(hashlen - 1) |-> U16_MAX]
                /\ table2' = [i \in 0..(hashlen - 1) |-> U16_MAX]
                /\ unassigned_keys' = {input_strings[i] : i \in 1..Len(input_strings)}
                /\ working_set' = {}
           ELSE /\ hash_pc' = "err"
                /\ UNCHANGED <<buckets1, buckets2, table1, table2,
                               unassigned_keys, working_set>>
    /\ UNCHANGED <<input_strings, param1, param2, hashlen, prev_result>>
    /\ UNCHANGED <<varsAmount, varsLookup, varsDedup, varsMerge, varsCore, varsFlatten, varsInsert, varsSanity>>

\* lines 110-114: the outer loop takes any unassigned key into the working set
HashPickUnassigned ==
    /\ hash_pc = "peel"
    /\ working_set = {}
    /\ \E key \in unassigned_keys :
          /\ unassigned_keys' = unassigned_keys \ {key}
          /\ working_set' = {key}
    /\ UNCHANGED <<input_strings, param1, param2, hashlen, buckets1, buckets2,
                   table1, table2, hash_pc, prev_result>>
    /\ UNCHANGED <<varsAmount, varsLookup, varsDedup, varsMerge, varsCore, varsFlatten, varsInsert, varsSanity>>

\* lines 115-154: one iteration of the inner loop on any key of the working set
HashProcessKey ==
    /\ hash_pc = "peel"
    /\ \E key \in working_set :
         LET hashval1 == hashfunc(key, param1) % hashlen
             hashval2 == hashfunc(key, param2) % hashlen
             target_id == TargetId(input_strings, key)
             datalen == Len(input_strings)
             set1 == buckets1[hashval1] \ {key}
             set2 == buckets2[hashval2] \ {key}
         IN  /\ unassigned_keys' = unassigned_keys \ {key}
             /\ IF table1[hashval1] # U16_MAX /\ table2[hashval2] # U16_MAX
                THEN /\ hash_pc' = "err"
                     /\ working_set' = working_set \ {key}
                     /\ UNCHANGED <<table1, table2, buckets1, buckets2>>
                ELSE /\ hash_pc' = "peel"
                     /\ IF table1[hashval1] # U16_MAX
                        THEN /\ table2' = [table2 EXCEPT ![hashval2] =
                                    TableDiff(target_id, table1[hashval1], datalen)]
                             /\ table1' = table1
                        ELSE IF table2[hashval2] # U16_MAX
                        THEN /\ table1' = [table1 EXCEPT ![hashval1] =
                                    TableDiff(target_id, table2[hashval2], datalen)]
                             /\ table2' = table2
                        ELSE /\ table1' = [table1 EXCEPT ![hashval1] = target_id]
                             /\ table2' = [table2 EXCEPT ![hashval2] = 0]
                     /\ buckets1' = [buckets1 EXCEPT ![hashval1] = set1]
                     /\ buckets2' = [buckets2 EXCEPT ![hashval2] = set2]
                     /\ working_set' = (working_set \ {key}) \cup set1 \cup set2
    /\ UNCHANGED <<input_strings, param1, param2, hashlen, prev_result>>
    /\ UNCHANGED <<varsAmount, varsLookup, varsDedup, varsMerge, varsCore, varsFlatten, varsInsert, varsSanity>>

\* line 157: both sets are empty, Ok((table1, table2))
HashFinish ==
    /\ hash_pc = "peel"
    /\ working_set = {} /\ unassigned_keys = {}
    /\ hash_pc' = "ok"
    /\ UNCHANGED <<input_strings, param1, param2, hashlen, buckets1, buckets2,
                   table1, table2, unassigned_keys, working_set, prev_result>>
    /\ UNCHANGED <<varsAmount, varsLookup, varsDedup, varsMerge, varsCore, varsFlatten, varsInsert, varsSanity>>

\* what a call returns: Ok with the two tables, or Err
HashResult == IF hash_pc = "ok" THEN <<"Ok", table1, table2>> ELSE <<"Err">>

\* the program runs once more on the same arguments (find_hash_parameters
\* succeeded with them, a later build calls make_perfect_hash again); the
\* result of the earlier run is kept for comparison
HashRunAgain ==
    /\ hash_pc \in {"ok", "err"}
    /\ prev_result = <<>>
    /\ prev_result' = <<HashResult>>
    /\ hash_pc' = "start"
    /\ buckets1' = <<>> /\ buckets2' = <<>> /\ table1' = <<>> /\ table2' = <<>>
    /\ unassigned_keys' = {} /\ working_set' = {}
    /\ UNCHANGED <<input_strings, param1, param2, hashlen>>
    /\ UNCHANGED <<varsAmount, varsLookup, varsDedup, varsMerge, varsCore, varsFlatten, varsInsert, varsSanity>>

NextHash == HashFill \/ HashPickUnassigned \/ HashProcessKey \/ HashFinish
            \/ HashRunAgain
SpecHash == InitHash /\ [][NextHash]_vars

\* the integer of a string under the finished tables
HashIndex(s) ==
    (table1[hashfunc(s, param1) % hashlen] + table2[hashfunc(s, param2) % hashlen])
        % Len(input_strings)

UniverseSet == {input_strings[i] : i \in 1..Len(input_strings)}

\* C5: whenever make_perfect_hash succeeds on N distinct strings, the tables
\* map every string of the universe to a distinct integer in [0, N).
C5_PerfectHashBijection ==
    hash_pc = "ok" =>
        /\ \A s \in UniverseSet : HashIndex(s) \in 0..(Len(input_strings) - 1)
        /\ \A s, t \in UniverseSet : s # t => HashIndex(s) # HashIndex(t)

\* a successful run on three strings in which a table entry needed the
\* wrap-around by datalen
C5_Witness ==
    /\ hash_pc = "ok"
    /\ Len(input_strings) = 3
    /\ \E s \in UniverseSet :
          table1[hashfunc(s, param1) % hashlen] + table2[hashfunc(s, param2) % hashlen]
              >= Len(input_strings)

\* C10: for fixed input strings and parameters make_perfect_hash returns the
\* same result on every run (same Ok/Err outcome, identical tables).
C10_SameResultEveryRun ==
    (hash_pc \in {"ok", "err"} /\ prev_result # <<>>) => HashResult = prev_result[1]

(***************************************************************************)
(* generate_enum and the from_bytes it emits                               *)
(* (generator/identifier_enums.rs 93-193, generator.rs 1094-1194)          *)
(* The displacement table comes from a make_perfect_hash(names, lambda)    *)
(* and the indices from a get_index that are not part of the sources; the  *)
(* three-word hashfunc lives in the crate the text is generated for.       *)
(* Any displacement table is drawn, so every table the missing builder     *)
(* could return is covered.                                                *)
(***************************************************************************)
MaxDispLen == 2     \* longest displacement table drawn

\* the (d1, d2) pairs the displacement tables are drawn from
DispPool == {<<0, 0>>, <<1, 0>>, <<1, 1>>, <<2, 1>>}
\* the seeds that select one of the modelled hash functions
SeedPool == {1, 2}
\* the inputs looked up: the pool the universes are drawn from and the empty input
LookupInputs == HashStringPool \cup {<<>>}

\* crate::hashfunc(input) -> (g, f1, f2): a fixed mixing function of the bytes
hashfunc3(input, seed) ==
    <<HashFold(seed, input, 3), HashFold(seed + 1, input, 5), HashFold(seed + 2, input, 2)>>

\* the slot of a string: displace(f1, f2, d1, d2) % length
get_index(name, dsp, length, seed) ==
    LET h == hashfunc3(name, seed)
        d == dsp[(h[1] % Len(dsp)) + 1]
    IN  (d[2] + h[2] * d[1] + h[3]) % length

\* insertion of one name into a list sorted by get_index, after its equals
RECURSIVE IndexSortedInsert(_, _, _, _, _)
IndexSortedInsert(sorted, name, dsp, length, seed) ==
    IF sorted = <<>> THEN <<name>>
    ELSE IF get_index(name, dsp, length, seed) < get_index(Head(sorted), dsp, length, seed)
         THEN <<name>> \o sorted
         ELSE <<Head(sorted)>> \o IndexSortedInsert(Tail(sorted), name, dsp, length, seed)

\* hash_sorted_item_names.sort_by(get_index): a stable sort of item_names
RECURSIVE HashSortedItemNames(_, _, _, _)
HashSortedItemNames(names, dsp, length, seed) ==
    IF names = <<>> THEN <<>>
    ELSE IndexSortedInsert(
            HashSortedItemNames(SubSeq(names, 1, Len(names) - 1), dsp, length, seed),
            names[Len(names)], dsp, length, seed)

\* mutant: the stored string is not compared with the input
from_bytes_NoCompare(input, table, dsp, seed) ==
    LET h == hashfunc3(input, seed)
        d == dsp[(h[1] % Len(dsp)) + 1]
        item_idx == (d[2] + h[2] * d[1] + h[3]) % Len(table)
    IN  <<"Ok", item_idx % U16_MOD>>

\* the emitted from_bytes: DISPLACEMENTS[g % displen], the slot, the comparison
\* of STRING_TABLE[item_idx] with the input, Ok(item_idx as u16) or Err
from_bytes(input, table, dsp, seed) ==
    LET h == hashfunc3(input, seed)
        d == dsp[(h[1] % Len(dsp)) + 1]
        item_idx == (d[2] + h[2] * d[1] + h[3]) % Len(table)
    IN  IF table[item_idx + 1] # input
        THEN <<"Err">>
        ELSE <<"Ok", item_idx % U16_MOD>>

InitLookup ==
    /\ item_names \in HashUniverses
    /\ disps \in UNION {[1..n -> DispPool] : n \in 1..MaxDispLen}
    /\ hash_seed \in SeedPool
    /\ string_table = <<>>
    /\ lookup_input = <<>>
    /\ lookup_result = <<>>
    /\ IdleAmount /\ IdleHash /\ IdleDedup /\ IdleMerge /\ IdleCore /\ IdleFlatten /\ IdleInsert /\ IdleSanity

\* generate_enum: STRING_TABLE is item_names sorted by get_index
GenerateEnum ==
    /\ string_table = <<>>
    /\ string_table' = HashSortedItemNames(item_names, disps, Len(item_names), hash_seed)
    /\ UNCHANGED <<item_names, disps, hash_seed, lookup_input, lookup_result>>
    /\ UNCHANGED <<varsAmount, varsHash, varsDedup, varsMerge, varsCore, varsFlatten, varsInsert, varsSanity>>

\* a call of the generated from_bytes on any input
FromBytes ==
    /\ string_table # <<>>
    /\ lookup_result = <<>>
    /\ \E input \in LookupInputs :
          /\ lookup_input' = input
          /\ lookup_result' = from_bytes(input, string_table, disps, hash_seed)
    /\ UNCHANGED <<item_names, disps, hash_seed, string_table>>
    /\ UNCHANGED <<varsAmount, varsHash, varsDedup, varsMerge, varsCore, varsFlatten, varsInsert, varsSanity>>

NextLookup == GenerateEnum \/ FromBytes
SpecLookup == InitLookup /\ [][NextLookup]_vars

ItemNameSet == {item_names[i] : i \in 1..Len(item_names)}

\* C9: from_bytes returns Ok(i) only if the string stored at slot i of the
\* string table equals the input; a string outside the universe gets the
\* parse error, never an index.
C9_OutOfUniverseRejected ==
    lookup_result # <<>> =>
        /\ lookup_result[1] = "Ok" =>
              /\ lookup_result[2] \in 0..(Len(string_table) - 1)
              /\ string_table[lookup_result[2] + 1] = lookup_input
        /\ lookup_input \notin ItemNameSet => lookup_result = <<"Err">>

\* an input outside the universe whose slot holds a universe string, rejected,
\* in a table of three names
C9_Witness ==
    /\ lookup_result = <<"Err">>
    /\ lookup_input \notin ItemNameSet
    /\ lookup_input # <<>>
    /\ Len(string_table) = 3

\* a universe string accepted at its slot
C9_WitnessAccepted ==
    /\ lookup_result # <<>>
    /\ lookup_result[1] = "Ok"
    /\ lookup_input \in ItemNameSet

(***************************************************************************)
(* The Unified Type Set  (main.rs 14-104)                                  *)
(* Type names are byte strings; a map is a function whose domain is the    *)
(* set of names present.                                                   *)
(***************************************************************************)
\* struct Attribute
Attribute(name, attr_type, required, version_info) ==
    [name |-> name, attr_type |-> attr_type, required |-> required,
     version_info |-> version_info]

\* ElementCollectionItem::Element(Element {..}); the flags and the docstring
\* are carried along and take part in == only
ElementItem(name, typeref, amount, version_info) ==
    [kind |-> "Element", name |-> name, typeref |-> typeref, amount |-> amount,
     version_info |-> version_info, splittable |-> FALSE, ordered |-> FALSE,
     restrict_std |-> "NotRestricted", docstring |-> <<>>]

\* ElementCollectionItem::GroupRef(String)
GroupRefItem(group) == [kind |-> "GroupRef", group |-> group]

\* ElementCollectionItem::name
ItemName(item) == IF item.kind = "Element" THEN item.name ELSE item.group

\* ElementCollection::Sequence / ElementCollection::Choice
SequenceGroup(name, sub_elements) ==
    [kind |-> "Sequence", name |-> name, sub_elements |-> sub_elements]
ChoiceGroup(name, sub_elements, amount) ==
    [kind |-> "Choice", name |-> name, sub_elements |-> sub_elements, amount |-> amount]

\* ElementDataType::Elements / Characters / Mixed
ElementsType(group_ref, attributes, xsd_typenames) ==
    [kind |-> "Elements", group_ref |-> group_ref, attributes |-> attributes,
     xsd_typenames |-> xsd_typenames]
CharactersType(attributes, basetype) ==
    [kind |-> "Characters", attributes |-> attributes, basetype |-> basetype]
MixedType(group_ref, attributes, basetype) ==
    [kind |-> "Mixed", group_ref |-> group_ref, attributes |-> attributes,
     basetype |-> basetype]

\* CharacterDataType::Pattern / Enum / String / UnsignedInteger / Double
PatternType(pattern, max_length) ==
    [kind |-> "Pattern", pattern |-> pattern, max_length |-> max_length]
EnumType(name, enumitems) == [kind |-> "Enum", name |-> name, enumitems |-> enumitems]
StringType(max_length, preserve_whitespace) ==
    [kind |-> "String", max_length |-> max_length,
     preserve_whitespace |-> preserve_whitespace]
UnsignedIntegerType == [kind |-> "UnsignedInteger"]
DoubleType == [kind |-> "Double"]

\* struct AutosarDataTypes
AutosarDataTypes(element_types, character_types, group_types) ==
    [element_types |-> element_types, character_types |-> character_types,
     group_types |-> group_types]

\* a map without the names of a set (FxHashMap::remove for each of them)
RemoveKeys(map, names) == [n \in (DOMAIN map) \ names |-> map[n]]

\* an FxHashMap with no entry
EmptyMap == [n \in {} |-> n]

(***************************************************************************)
(* dedup_types  (dedup.rs 4-201, main.rs 262-419)                          *)
(***************************************************************************)
\* mutant: plain lexicographic order, the length is not compared first
dedup_keycmp_LexOnly(key1, key2) ==
    IF key1 = key2 THEN "Equal" ELSE IF StrLess(key1, key2) THEN "Less" ELSE "Greater"

\* dedup_keycmp: the shorter key first, keys of one length lexicographically
dedup_keycmp(key1, key2) ==
    IF Len(key1) < Len(key2) THEN "Less"
    ELSE IF Len(key1) > Len(key2) THEN "Greater"
    ELSE IF key1 = key2 THEN "Equal"
    ELSE IF StrLess(key1, key2) THEN "Less"
    ELSE "Greater"

\* keys().cloned().collect() followed by sort_by(dedup_keycmp)
RECURSIVE SortedTypenames(_)
SortedTypenames(names) ==
    IF names = {} THEN <<>>
    ELSE LET first == CHOOSE n \in names :
                         \A m \in names : dedup_keycmp(n, m) \in {"Less", "Equal"}
         IN  <<first>> \o SortedTypenames(names \ {first})

\* the inner loop: every later typename2 that is not replaced yet and whose
\* definition == that of typename1 is replaced by typename1
RECURSIVE FindInner(_, _, _, _, _)
FindInner(types, typenames, idx1, idx2, replacements) ==
    IF idx2 > Len(typenames) THEN replacements
    ELSE IF typenames[idx2] \notin DOMAIN replacements
            /\ types[typenames[idx1]] = types[typenames[idx2]]
         THEN FindInner(types, typenames, idx1, idx2 + 1,
                        [n \in (DOMAIN replacements) \cup {typenames[idx2]} |->
                            IF n = typenames[idx2] THEN typenames[idx1]
                            ELSE replacements[n]])
         ELSE FindInner(types, typenames, idx1, idx2 + 1, replacements)

\* the outer loop, for idx1 in 0..(len - 1), skipping replaced typenames
RECURSIVE FindOuter(_, _, _, _)
FindOuter(types, typenames, idx1, replacements) ==
    IF idx1 > Len(typenames) - 1 THEN replacements
    ELSE IF typenames[idx1] \in DOMAIN replacements
         THEN FindOuter(types, typenames, idx1 + 1, replacements)
         ELSE FindOuter(types, typenames, idx1 + 1,
                        FindInner(types, typenames, idx1, idx1 + 1, replacements))

\* `0..(len - 1)` on an empty map: len - 1 underflows usize; the debug build
\* panics on the subtraction, the release build on typenames[0]
FindPanics(types) == DOMAIN types = {}

find_chartype_replacements(autosar) ==
    FindOuter(autosar.character_types, SortedTypenames(DOMAIN autosar.character_types),
              1, EmptyMap)
find_group_replacements(autosar) ==
    FindOuter(autosar.group_types, SortedTypenames(DOMAIN autosar.group_types),
              1, EmptyMap)
find_elemtype_replacements(autosar) ==
    FindOuter(autosar.element_types, SortedTypenames(DOMAIN autosar.element_types),
              1, EmptyMap)

\* if let Some(rep) = replacements.get(name) { *name = rep }
Replaced(replacements, name) ==
    IF name \in DOMAIN replacements THEN replacements[name] ELSE name

\* replace_element_chartypes: attribute types and basetypes of every element type
replace_element_chartypes(autosar, char_replacements) ==
    [autosar EXCEPT !.element_types =
        [n \in DOMAIN autosar.element_types |->
            LET artype == autosar.element_types[n]
                with_attrs == [artype EXCEPT !.attributes =
                    [i \in 1..Len(artype.attributes) |->
                        [artype.attributes[i] EXCEPT !.attr_type =
                            Replaced(char_replacements, artype.attributes[i].attr_type)]]]
            IN  IF artype.kind \in {"Characters", "Mixed"}
                THEN [with_attrs EXCEPT !.basetype =
                         Replaced(char_replacements, artype.basetype)]
                ELSE with_attrs]]

\* replace_groupitem_types: the typeref of every Element item and the name of
\* every GroupRef item of every group
replace_groupitem_types(autosar, elem_replacements, group_replacements) ==
    [autosar EXCEPT !.group_types =
        [n \in DOMAIN autosar.group_types |->
            LET group_type == autosar.group_types[n]
            IN  [group_type EXCEPT !.sub_elements =
                    [i \in 1..Len(group_type.sub_elements) |->
                        LET ec_item == group_type.sub_elements[i]
                        IN  IF ec_item.kind = "Element"
                            THEN [ec_item EXCEPT !.typeref =
                                     Replaced(elem_replacements, ec_item.typeref)]
                            ELSE [ec_item EXCEPT !.group =
                                     Replaced(group_replacements, ec_item.group)]]]]]

\* mutant: the group references of the element types are left as they are
replace_element_grouptypes_Skipped(autosar, group_replacements) == autosar

\* replace_element_grouptypes: the group_ref of every Elements / Mixed type
replace_element_grouptypes(autosar, group_replacements) ==
    [autosar EXCEPT !.element_types =
        [n \in DOMAIN autosar.element_types |->
            LET artype == autosar.element_types[n]
            IN  IF artype.kind \in {"Elements", "Mixed"}
                THEN [artype EXCEPT !.group_ref =
                         Replaced(group_replacements, artype.group_ref)]
                ELSE artype]]

\* one entry of the history of a call: the three replacement tables of a pass
PassLog(chars, groups, elems) == [chars |-> chars, groups |-> groups, elems |-> elems]

\* what a call leaves behind: the schema, "returned" or "panicked", the history
DedupOutcome(autosar, status, log) == [types |-> autosar, status |-> status, log |-> log]

\* mutant: the loop ends as soon as no element type was replaced
LoopDone_ElemsOnly(group_replacements, elem_replacements) ==
    DOMAIN elem_replacements = {}

\* mutant: the loop ends as soon as no group was replaced
LoopDone_GroupsOnly(group_replacements, elem_replacements) ==
    DOMAIN group_replacements = {}

\* dedup.rs 35: group_replacements.is_empty() && elem_replacements.is_empty()
LoopDone(group_replacements, elem_replacements) ==
    DOMAIN group_replacements = {} /\ DOMAIN elem_replacements = {}

\* mutant: the loop is left after its first pass
DedupLoop_OnePass(autosar, log) ==
    IF FindPanics(autosar.group_types) \/ FindPanics(autosar.element_types)
    THEN DedupOutcome(autosar, "panicked", log)
    ELSE LET group_replacements == find_group_replacements(autosar)
             elem_replacements == find_elemtype_replacements(autosar)
             items_done == replace_groupitem_types(autosar, elem_replacements,
                                                   group_replacements)
             refs_done == replace_element_grouptypes(items_done, group_replacements)
             removed == [refs_done EXCEPT
                 !.group_types = RemoveKeys(refs_done.group_types,
                                            DOMAIN group_replacements),
                 !.element_types = RemoveKeys(refs_done.element_types,
                                              DOMAIN elem_replacements)]
         IN  DedupOutcome(removed, "returned",
                 Append(log, PassLog(EmptyMap, group_replacements, elem_replacements)))

\* dedup.rs 15-38: the loop over group and element types
RECURSIVE DedupLoop(_, _)
DedupLoop(autosar, log) ==
    IF FindPanics(autosar.group_types) \/ FindPanics(autosar.element_types)
    THEN DedupOutcome(autosar, "panicked", log)
    ELSE LET group_replacements == find_group_replacements(autosar)
             elem_replacements == find_elemtype_replacements(autosar)
             items_done == replace_groupitem_types(autosar, elem_replacements,
                                                   group_replacements)
             refs_done == replace_element_grouptypes(items_done, group_replacements)
             removed == [refs_done EXCEPT
                 !.group_types = RemoveKeys(refs_done.group_types,
                                            DOMAIN group_replacements),
                 !.element_types = RemoveKeys(refs_done.element_types,
                                              DOMAIN elem_replacements)]
             log2 == Append(log, PassLog(EmptyMap, group_replacements, elem_replacements))
         IN  IF LoopDone(group_replacements, elem_replacements)
             THEN DedupOutcome(removed, "returned", log2)
             ELSE DedupLoop(removed, log2)

\* dedup.rs 4-39: character types once, then the loop
dedup_types(autosar) ==
    IF FindPanics(autosar.character_types)
    THEN DedupOutcome(autosar, "panicked", <<>>)
    ELSE LET char_replacements == find_chartype_replacements(autosar)
             chars_done == replace_element_chartypes(autosar, char_replacements)
             removed == [chars_done EXCEPT
                 !.character_types = RemoveKeys(chars_done.character_types,
                                                DOMAIN char_replacements)]
         IN  DedupLoop(removed, <<PassLog(char_replacements, EmptyMap, EmptyMap)>>)

\* main.rs 262-412: the three maps inside one loop
RECURSIVE dedup_types_main(_, _)
dedup_types_main(autosar, log) ==
    IF FindPanics(autosar.group_types) \/ FindPanics(autosar.element_types)
       \/ FindPanics(autosar.character_types)
    THEN DedupOutcome(autosar, "panicked", log)
    ELSE LET group_replacements == find_group_replacements(autosar)
             elem_replacements == find_elemtype_replacements(autosar)
             char_replacements == find_chartype_replacements(autosar)
             items_done == replace_groupitem_types(autosar, elem_replacements,
                                                   group_replacements)
             refs_done == replace_element_chartypes(
                              replace_element_grouptypes(items_done, group_replacements),
                              char_replacements)
             removed == [refs_done EXCEPT
                 !.group_types = RemoveKeys(refs_done.group_types,
                                            DOMAIN group_replacements),
                 !.element_types = RemoveKeys(refs_done.element_types,
                                              DOMAIN elem_replacements),
                 !.character_types = RemoveKeys(refs_done.character_types,
                                                DOMAIN char_replacements)]
             log2 == Append(log, PassLog(char_replacements, group_replacements,
                                         elem_replacements))
         IN  IF LoopDone(group_replacements, elem_replacements)
                /\ DOMAIN char_replacements = {}
             THEN DedupOutcome(removed, "returned", log2)
             ELSE dedup_types_main(removed, log2)

(***************************************************************************)
(* The schemas dedup_types is run on.  All references resolve.             *)
(***************************************************************************)
MaxCharTypes == 3   \* number of character types of the drawn schemas

CharNamePool == << <<97>>, <<98>>, <<97, 97>>, <<97, 98>>, <<98, 97>> >>
CharNames == {CharNamePool[i] : i \in 1..MaxCharTypes}
CharDefPool == {PatternType(<<94, 36>>, <<>>), UnsignedIntegerType}

NameE1 == <<101>>
NameE2 == <<102>>
NameR1 == <<114>>
NameR2 == <<114, 114>>
NameG1 == <<103>>
NameG2 == <<103, 103>>
NameH1 == <<104>>
NameH2 == <<104, 104>>
NameX  == <<88>>
NameY  == <<89>>
NameT  == <<84>>

\* "xsd:string", "xsd:NMTOKEN", "xsd:NMTOKENS", "xsd:unsignedInt", "xsd:double"
XsdString == <<120, 115, 100, 58, 115, 116, 114, 105, 110, 103>>
XsdNmtoken == <<120, 115, 100, 58, 78, 77, 84, 79, 75, 69, 78>>
XsdNmtokens == <<120, 115, 100, 58, 78, 77, 84, 79, 75, 69, 78, 83>>
XsdUnsignedInt == <<120, 115, 100, 58, 117, 110, 115, 105, 103, 110, 101, 100, 73, 110, 116>>
XsdDouble == <<120, 115, 100, 58, 100, 111, 117, 98, 108, 101>>

\* AutosarDataTypes::new: the character types every flattened schema starts with
SeededCharacterTypes ==
       (XsdString :> StringType(<<>>, FALSE))
    @@ (XsdNmtoken :> StringType(<<>>, FALSE))
    @@ (XsdNmtokens :> StringType(<<>>, FALSE))
    @@ (XsdUnsignedInt :> UnsignedIntegerType)
    @@ (XsdDouble :> DoubleType)

\* the schema selected by the drawn references; a seeded one also holds the
\* character types of AutosarDataTypes::new
DedupSchema(cdef, base1, base2, attr2, ref1, ref2, gref, leaves_only, seeded) ==
    LET leaf_types == (NameE1 :> CharactersType(<<>>, base1))
                      @@ (NameE2 :> CharactersType(<<>>, base2))
        inner_types ==
               (NameR1 :> ElementsType(NameG1,
                              <<Attribute(NameT, CharNamePool[1], FALSE, 1)>>, {}))
            @@ (NameR2 :> ElementsType(NameG2, <<Attribute(NameT, attr2, FALSE, 1)>>, {}))
        groups ==
               (NameG1 :> SequenceGroup(<<>>, <<ElementItem(NameX, ref1, "One", 1)>>))
            @@ (NameG2 :> SequenceGroup(<<>>, <<ElementItem(NameX, ref2, "One", 1)>>))
            @@ (NameH1 :> ChoiceGroup(<<>>, <<GroupRefItem(gref),
                                              ElementItem(NameY, NameR1, "Any", 1)>>, "Any"))
            @@ (NameH2 :> ChoiceGroup(<<>>, <<GroupRefItem(NameG2),
                                              ElementItem(NameY, NameR2, "Any", 1)>>, "Any"))
        chars == IF seeded THEN cdef @@ SeededCharacterTypes ELSE cdef
    IN  IF leaves_only
        THEN AutosarDataTypes(leaf_types, chars, EmptyMap)
        ELSE AutosarDataTypes(leaf_types @@ inner_types, chars, groups)

DedupSchemas ==
    {DedupSchema(cdef, base1, base2, attr2, ref1, ref2, gref, leaves_only, seeded) :
        cdef \in [CharNames -> CharDefPool],
        base1 \in CharNames, base2 \in CharNames, attr2 \in CharNames,
        ref1 \in {NameE1, NameE2}, ref2 \in {NameE1, NameE2},
        gref \in {NameG1, NameG2}, leaves_only \in BOOLEAN, seeded \in BOOLEAN}

InitDedup ==
    /\ autosar_types \in DedupSchemas
    /\ dedup_before = autosar_types
    /\ dedup_status = "ready"
    /\ dedup_log = <<>>
    /\ dedup_impl = "none"
    /\ dedup_calls = 0
    /\ IdleAmount /\ IdleHash /\ IdleLookup /\ IdleMerge /\ IdleCore /\ IdleFlatten /\ IdleInsert /\ IdleSanity

\* the schema is changed in place by a call that ran to `outcome`
DedupCall(outcome, impl) ==
    /\ dedup_status \in {"ready", "returned"}
    /\ dedup_calls < 2
    /\ dedup_before' = autosar_types
    /\ autosar_types' = outcome.types
    /\ dedup_status' = outcome.status
    /\ dedup_log' = outcome.log
    /\ dedup_impl' = impl
    /\ dedup_calls' = dedup_calls + 1
    /\ UNCHANGED <<varsAmount, varsHash, varsLookup, varsMerge, varsCore, varsFlatten, varsInsert, varsSanity>>

\* dedup::dedup_types(&mut autosar_schema)
DedupTypes == DedupCall(dedup_types(autosar_types), "dedup.rs")

\* main.rs: dedup_types(&mut autosar_schema)
DedupTypesMain == DedupCall(dedup_types_main(autosar_types, <<>>), "main.rs")

NextDedup == DedupTypes \/ DedupTypesMain
SpecDedup == InitDedup /\ [][NextDedup]_vars

\* no two distinct names of a map have == definitions
NoDuplicates(map) == \A n, m \in DOMAIN map : n # m => map[n] # map[m]

\* C3: after dedup_types returns no two distinct names of character_types,
\* group_types or element_types have structurally equal definitions, and a
\* second run of dedup_types changes nothing.
C3_DedupFixpoint ==
    dedup_status = "returned" =>
        /\ NoDuplicates(autosar_types.character_types)
        /\ NoDuplicates(autosar_types.group_types)
        /\ NoDuplicates(autosar_types.element_types)
        /\ dedup_calls = 2 => autosar_types = dedup_before

\* a second run on a schema that the first run collapsed through all stages
\* (two of the four groups and two of the four element types are left)
C3_Witness ==
    /\ dedup_status = "returned"
    /\ dedup_calls = 2
    /\ Cardinality(DOMAIN autosar_types.group_types) = 2
    /\ Cardinality(DOMAIN autosar_types.element_types) = 2

\* every group item, group_ref, attribute type and basetype names a present type
AllResolve(autosar) ==
    /\ \A g \in DOMAIN autosar.group_types :
          \A i \in 1..Len(autosar.group_types[g].sub_elements) :
             LET item == autosar.group_types[g].sub_elements[i]
             IN  IF item.kind = "Element"
                 THEN item.typeref \in DOMAIN autosar.element_types
                 ELSE item.group \in DOMAIN autosar.group_types
    /\ \A e \in DOMAIN autosar.element_types :
          LET artype == autosar.element_types[e]
          IN  /\ artype.kind \in {"Elements", "Mixed"} =>
                    artype.group_ref \in DOMAIN autosar.group_types
              /\ artype.kind \in {"Characters", "Mixed"} =>
                    artype.basetype \in DOMAIN autosar.character_types
              /\ \A i \in 1..Len(artype.attributes) :
                    artype.attributes[i].attr_type \in DOMAIN autosar.character_types

\* C4: if every reference resolves before dedup_types, every reference
\* resolves after it returns.
C4_DedupSoundness ==
    (dedup_status = "returned" /\ AllResolve(dedup_before)) => AllResolve(autosar_types)

\* a returned call that removed a group, an element type and a character
\* type, each of which something in the schema referred to
C4_Witness ==
    /\ dedup_status = "returned"
    /\ dedup_calls = 1
    /\ AllResolve(dedup_before)
    /\ \E e \in DOMAIN dedup_before.element_types :
          /\ dedup_before.element_types[e].kind = "Elements"
          /\ dedup_before.element_types[e].group_ref \notin DOMAIN autosar_types.group_types
    /\ \E e \in DOMAIN dedup_before.element_types :
          /\ dedup_before.element_types[e].kind = "Characters"
          /\ dedup_before.element_types[e].basetype
                \notin DOMAIN autosar_types.character_types
    /\ \E g \in DOMAIN dedup_before.group_types :
          \E i \in 1..Len(dedup_before.group_types[g].sub_elements) :
             /\ dedup_before.group_types[g].sub_elements[i].kind = "Element"
             /\ dedup_before.group_types[g].sub_elements[i].typeref
                   \notin DOMAIN autosar_types.element_types

\* the name a name was collapsed into by the passes idx.. of the history
RECURSIVE Survivor(_, _, _, _)
Survivor(log, field, idx, name) ==
    IF idx > Len(log) THEN name
    ELSE Survivor(log, field, idx + 1,
                  IF field = "chars" THEN Replaced(log[idx].chars, name)
                  ELSE IF field = "groups" THEN Replaced(log[idx].groups, name)
                  ELSE Replaced(log[idx].elems, name))

\* shorter name first, names of one length in byte order
ShorterFirstLeq(a, b) ==
    \/ Len(a) < Len(b)
    \/ Len(a) = Len(b) /\ (a = b \/ StrLess(a, b))

\* the survivor of every name of a map is present and is the smallest name
\* collapsed into it
SurvivorsSmallest(before, after, field) ==
    \A n \in DOMAIN before :
        LET s == Survivor(dedup_log, field, 1, n)
        IN  /\ s \in DOMAIN after
            /\ s \in DOMAIN before
            /\ ShorterFirstLeq(s, n)

\* every reference held by a surviving group or element type names the
\* survivor of the name it held before
ReferencesFollow(before, after) ==
    /\ \A g \in DOMAIN after.group_types :
          /\ Len(after.group_types[g].sub_elements)
                = Len(before.group_types[g].sub_elements)
          /\ \A i \in 1..Len(after.group_types[g].sub_elements) :
                LET old == before.group_types[g].sub_elements[i]
                    new == after.group_types[g].sub_elements[i]
                IN  IF old.kind = "Element"
                    THEN new = [old EXCEPT !.typeref =
                                   Survivor(dedup_log, "elems", 1, old.typeref)]
                    ELSE new = [old EXCEPT !.group =
                                   Survivor(dedup_log, "groups", 1, old.group)]
    /\ \A e \in DOMAIN after.element_types :
          LET old == before.element_types[e]
              new == after.element_types[e]
          IN  /\ new.kind = old.kind
              /\ old.kind \in {"Elements", "Mixed"} =>
                    new.group_ref = Survivor(dedup_log, "groups", 1, old.group_ref)
              /\ old.kind \in {"Characters", "Mixed"} =>
                    new.basetype = Survivor(dedup_log, "chars", 1, old.basetype)
              /\ Len(new.attributes) = Len(old.attributes)
              /\ \A i \in 1..Len(old.attributes) :
                    new.attributes[i] = [old.attributes[i] EXCEPT !.attr_type =
                        Survivor(dedup_log, "chars", 1, old.attributes[i].attr_type)]

\* C8: of every set of names dedup_types collapses into one the smallest
\* under (shorter first, then lexicographic) survives, and every reference
\* to a name of the set names the survivor afterwards.
C8_CanonicalName ==
    dedup_status = "returned" =>
        /\ SurvivorsSmallest(dedup_before.character_types,
                             autosar_types.character_types, "chars")
        /\ SurvivorsSmallest(dedup_before.group_types,
                             autosar_types.group_types, "groups")
        /\ SurvivorsSmallest(dedup_before.element_types,
                             autosar_types.element_types, "elems")
        /\ ReferencesFollow(dedup_before, autosar_types)

\* the two-byte name "aa" and the one-byte name "b" had equal definitions,
\* "b" survived, and an element type whose basetype was "aa" now names "b"
C8_Witness ==
    /\ dedup_status = "returned"
    /\ dedup_calls = 1
    /\ <<97, 97>> \in DOMAIN dedup_before.character_types
    /\ <<97, 97>> \notin DOMAIN autosar_types.character_types
    /\ Survivor(dedup_log, "chars", 1, <<97, 97>>) = <<98>>
    /\ \E e \in DOMAIN autosar_types.element_types :
          /\ dedup_before.element_types[e].kind = "Characters"
          /\ dedup_before.element_types[e].basetype = <<97, 97>>
          /\ autosar_types.element_types[e].basetype = <<98>>

\* C11: the character types seeded by AutosarDataTypes::new (xsd:string,
\* xsd:NMTOKEN, xsd:NMTOKENS, xsd:unsignedInt, xsd:double) are all still in
\* character_types after dedup_types; none is removed as a duplicate.
C11_SeededPrimitivesKept ==
    (/\ dedup_status = "returned"
     /\ \A n \in DOMAIN SeededCharacterTypes :
            /\ n \in DOMAIN dedup_before.character_types
            /\ dedup_before.character_types[n] = SeededCharacterTypes[n])
        => DOMAIN SeededCharacterTypes \subseteq DOMAIN autosar_types.character_types

\* C12: dedup_types returns normally, without a panic, for every schema,
\* whatever the sizes of its three maps, also when group_types or
\* element_types is empty.
C12_DedupNeverPanics == dedup_calls > 0 => dedup_status = "returned"

\* the number of names in the three maps
TypeCount(autosar) ==
    Cardinality(DOMAIN autosar.group_types) + Cardinality(DOMAIN autosar.element_types)
        + Cardinality(DOMAIN autosar.character_types)

\* the passes of the loop in the history: dedup.rs replaces the character
\* types once, ahead of the loop, which is the first entry of its history
LoopPasses == IF dedup_impl = "dedup.rs" THEN 2..Len(dedup_log) ELSE 1..Len(dedup_log)

GroupsAndElemsReplaced(pass) ==
    Cardinality(DOMAIN pass.groups) + Cardinality(DOMAIN pass.elems)
AllReplaced(pass) == GroupsAndElemsReplaced(pass) + Cardinality(DOMAIN pass.chars)

RECURSIVE SumReplaced(_, _)
SumReplaced(log, idx) ==
    IF idx > Len(log) THEN 0 ELSE AllReplaced(log[idx]) + SumReplaced(log, idx + 1)

\* C13 as stated: every pass of the dedup loop either removes at least one
\* name from group_types or element_types or finds zero replacements and
\* ends the loop.
C13_EveryPassShrinksGroupsOrElems ==
    dedup_status = "returned" =>
        \A i \in LoopPasses :
            \/ GroupsAndElemsReplaced(dedup_log[i]) > 0
            \/ AllReplaced(dedup_log[i]) = 0 /\ i = Len(dedup_log)

\* C13 amended: every pass of the dedup loop either removes at least one
\* name from group_types, element_types or character_types and goes on, or
\* finds zero replacements and ends the loop; every replaced name leaves its
\* map, so the total type count strictly decreases with every pass but the
\* last and the loop makes at most (type count + 1) passes.
C13_EveryPassShrinksOrEnds ==
    dedup_status = "returned" =>
        /\ \A i \in LoopPasses :
               IF i = Len(dedup_log) THEN AllReplaced(dedup_log[i]) = 0
               ELSE AllReplaced(dedup_log[i]) > 0
        /\ Len(dedup_log) > 0
        /\ TypeCount(autosar_types) = TypeCount(dedup_before) - SumReplaced(dedup_log, 1)
        /\ Len(dedup_log) <= TypeCount(dedup_before) + 1

\* a run of the loop of main.rs whose first pass replaced character types
\* only and whose later passes replaced element types and groups
C13_Witness ==
    /\ dedup_status = "returned"
    /\ dedup_impl = "main.rs"
    /\ dedup_calls = 1
    /\ Len(dedup_log) >= 4
    /\ GroupsAndElemsReplaced(dedup_log[1]) = 0
    /\ Cardinality(DOMAIN dedup_log[1].chars) > 0
    /\ \E i \in 2..Len(dedup_log) : DOMAIN dedup_log[i].groups # {}

(***************************************************************************)
(* merge  (merge.rs)                                                       *)
(* Version tags are usize bitmasks.  Every group item, attribute and enum  *)
(* item of the merge model carries two history fields that no code reads:  *)
(* orig, its index in the list of merged_xsd before the call (0 for an     *)
(* item that came from input_xsd), and seen, the version tags of the       *)
(* incoming items it was matched with.                                     *)
(***************************************************************************)
\* a | b on usize
RECURSIVE BitOr(_, _)
BitOr(a, b) ==
    IF a = 0 THEN b
    ELSE IF b = 0 THEN a
    ELSE (IF a % 2 = 1 \/ b % 2 = 1 THEN 1 ELSE 0) + 2 * BitOr(a \div 2, b \div 2)

\* an enum item (String, usize)
EnumItem(value, version_info) == [value |-> value, version_info |-> version_info]

\* the history fields of a group item, an attribute, an enum item
TrackItem(item, orig) ==
    IF item.kind = "Element"
    THEN [kind |-> "Element", name |-> item.name, typeref |-> item.typeref,
          amount |-> item.amount, version_info |-> item.version_info,
          splittable |-> item.splittable, ordered |-> item.ordered,
          restrict_std |-> item.restrict_std, docstring |-> item.docstring,
          orig |-> orig, seen |-> {}]
    ELSE [kind |-> "GroupRef", group |-> item.group, orig |-> orig, seen |-> {}]
TrackAttribute(attr, orig) ==
    [name |-> attr.name, attr_type |-> attr.attr_type, required |-> attr.required,
     version_info |-> attr.version_info, orig |-> orig, seen |-> {}]
TrackEnumItem(item, orig) ==
    [value |-> item.value, version_info |-> item.version_info,
     orig |-> orig, seen |-> {}]

\* mutant: the new entry takes the place of the one at insert_pos
VecInsert_Replace(vec, insert_pos, x) ==
    IF insert_pos < Len(vec) THEN [vec EXCEPT ![insert_pos + 1] = x] ELSE Append(vec, x)

\* mutant: an entry without a match is dropped
VecInsert_Drop(vec, insert_pos, x) == vec

\* mutant: the new entry goes to the end of the list
VecInsert_Append(vec, insert_pos, x) == Append(vec, x)

\* Vec::insert(insert_pos, x), insert_pos counted from 0
VecInsert(vec, insert_pos, x) ==
    SubSeq(vec, 1, insert_pos) \o <<x>> \o SubSeq(vec, insert_pos + 1, Len(vec))

\* iter().enumerate().find(..).map(idx): the first index (from 0) whose entry
\* is in `hits`, or -1 for None
FirstIndex(hits) ==
    IF hits = {} THEN -1 ELSE (CHOOSE i \in hits : \A j \in hits : i <= j) - 1

\* struct MergeItems and the entries of its elem_types
MergeItems(elem_types, char_types) == [elem_types |-> elem_types, char_types |-> char_types]
ElemPair(typename_merged, typename_input) == <<"Element", typename_merged, typename_input>>
GroupPair(typename_merged, typename_input) == <<"Group", typename_merged, typename_input>>

\* mutant: a matched item keeps the version it had
MatchedVersion_Keep(version_info, version_new) == version_info

\* mutant: the version of a matched item is overwritten by the incoming one
MatchedVersion_Overwrite(version_info, version_new) == version_new

\* `cur.version_info |= new.version_info`
MatchedVersion(version_info, version_new) == BitOr(version_info, version_new)

\* merge_enums, lines 361-372: the body of the loop for one incoming item.
\* find_pos is -1 when the item was inserted.
MergeEnumsStep(enumitems, newitem, insert_pos) ==
    LET find_pos == FirstIndex({i \in 1..Len(enumitems) :
                                   enumitems[i].value = newitem.value})
    IN  IF find_pos >= 0
        THEN [list |-> [enumitems EXCEPT ![find_pos + 1] =
                           [@ EXCEPT !.version_info =
                                         MatchedVersion(@, newitem.version_info),
                                     !.seen = @ \cup {newitem.version_info}]],
              insert_pos |-> find_pos + 1, find_pos |-> find_pos]
        ELSE [list |-> VecInsert(enumitems, insert_pos, newitem),
              insert_pos |-> insert_pos + 1, find_pos |-> -1]

\* merge_enums, lines 359-373: the loop from the k-th incoming item on
RECURSIVE MergeEnumsLoop(_, _, _, _)
MergeEnumsLoop(enumitems, enumitems_new, k, insert_pos) ==
    IF k > Len(enumitems_new) THEN enumitems
    ELSE LET step == MergeEnumsStep(enumitems, enumitems_new[k], insert_pos)
         IN  MergeEnumsLoop(step.list, enumitems_new, k + 1, step.insert_pos)

\* merge_enums: the enum item list of the merged definition afterwards
merge_enums(enumdef, enumdef_new) ==
    [enumdef EXCEPT !.enumitems = MergeEnumsLoop(@, enumdef_new.enumitems, 1, 0)]

\* merge_attributes, lines 324-342: the body of the loop for one incoming
\* attribute.  find_pos is -1 when the attribute was inserted.
MergeAttributesStep(attributes, newattr, insert_pos) ==
    LET find_pos == FirstIndex({i \in 1..Len(attributes) :
                                   attributes[i].name = newattr.name})
    IN  IF find_pos >= 0
        THEN [list |-> [attributes EXCEPT ![find_pos + 1] =
                           [@ EXCEPT !.version_info =
                                         MatchedVersion(@, newattr.version_info),
                                     !.seen = @ \cup {newattr.version_info}]],
              insert_pos |-> find_pos + 1, find_pos |-> find_pos,
              char_types |-> <<<<attributes[find_pos + 1].attr_type,
                                 newattr.attr_type>>>>]
        ELSE [list |-> VecInsert(attributes, insert_pos, newattr),
              insert_pos |-> insert_pos + 1, find_pos |-> -1, char_types |-> <<>>]

\* merge_attributes, lines 323-343: the loop from the k-th incoming attribute on
RECURSIVE MergeAttributesLoop(_, _, _, _, _)
MergeAttributesLoop(attributes, attributes_new, k, insert_pos, char_types) ==
    IF k > Len(attributes_new)
    THEN [attributes |-> attributes, char_types |-> char_types]
    ELSE LET step == MergeAttributesStep(attributes, attributes_new[k], insert_pos)
         IN  MergeAttributesLoop(step.list, attributes_new, k + 1, step.insert_pos,
                                 char_types \o step.char_types)

\* merge_attributes: the attribute list afterwards and the returned char_types
merge_attributes(attributes, attributes_new) ==
    MergeAttributesLoop(attributes, attributes_new, 1, 0, <<>>)

\* the CharacterDataType variant stored under a name, "None" when absent
CharKind(character_types, name) ==
    IF name \in DOMAIN character_types THEN character_types[name].kind ELSE "None"

\* mutant: an Element and a GroupRef are never compatible
element_is_compatible_SameKindOnly(item, item_new, character_types, character_types_new) ==
    /\ item.kind = "Element" /\ item_new.kind = "Element"
    /\ (IF item.typeref \in DOMAIN character_types
        THEN character_types[item.typeref].kind ELSE "None")
           = (IF item_new.typeref \in DOMAIN character_types_new
              THEN character_types_new[item_new.typeref].kind ELSE "None")

\* mutant: the items are matched by name alone
element_is_compatible_NameOnly(item, item_new, character_types, character_types_new) ==
    TRUE

\* element_is_compatible: two elements are compatible when the character
\* types of their typerefs are of one variant or both absent
element_is_compatible(item, item_new, character_types, character_types_new) ==
    IF item.kind = "Element" /\ item_new.kind = "Element"
    THEN CharKind(character_types, item.typeref)
            = CharKind(character_types_new, item_new.typeref)
    ELSE TRUE

\* "AR:AUTOSAR" and "SHORT-NAME" as bytes
AR_AUTOSAR == <<65, 82, 58, 65, 85, 84, 79, 83, 65, 82>>
SHORT_NAME == <<83, 72, 79, 82, 84, 45, 78, 65, 77, 69>>

\* merge_group_types, lines 245-310: the body of the loop for one incoming
\* item.  ok = FALSE is the `return Err(..)`, which leaves sub_elements as
\* they are at that moment; find_pos is -1 when the item was inserted.
MergeGroupStep(sub_elements, newelem, insert_pos, character_types, character_types_new) ==
    LET find_pos == FirstIndex({i \in 1..Len(sub_elements) :
                       /\ ItemName(sub_elements[i]) = ItemName(newelem)
                       /\ element_is_compatible(sub_elements[i], newelem,
                              character_types, character_types_new)})
        cur == sub_elements[find_pos + 1]
    IN  IF find_pos >= 0
        THEN IF cur.kind = "Element" /\ newelem.kind = "Element"
             THEN [ok |-> TRUE,
                   list |-> [sub_elements EXCEPT ![find_pos + 1] =
                                [@ EXCEPT !.version_info =
                                              MatchedVersion(@, newelem.version_info),
                                          !.seen = @ \cup {newelem.version_info}]],
                   insert_pos |-> find_pos + 1, find_pos |-> find_pos,
                   pairs |-> <<ElemPair(cur.typeref, newelem.typeref)>>]
             ELSE IF cur.kind = "GroupRef" /\ newelem.kind = "GroupRef"
             THEN [ok |-> TRUE, list |-> sub_elements,
                   insert_pos |-> find_pos + 1, find_pos |-> find_pos,
                   pairs |-> <<GroupPair(cur.group, newelem.group)>>]
             ELSE [ok |-> FALSE, list |-> sub_elements, insert_pos |-> insert_pos,
                   find_pos |-> find_pos, pairs |-> <<>>]
        ELSE [ok |-> TRUE, list |-> VecInsert(sub_elements, insert_pos, newelem),
              insert_pos |-> insert_pos + 1, find_pos |-> -1,
              pairs |-> <<IF newelem.kind = "Element"
                          THEN ElemPair(newelem.typeref, newelem.typeref)
                          ELSE GroupPair(newelem.group, newelem.group)>>]

\* merge_group_types, lines 240-313: the loop from the k-th incoming item on
RECURSIVE MergeGroupLoop(_, _, _, _, _, _, _)
MergeGroupLoop(sub_elements, new_items, k, insert_pos, typesvec, character_types, character_types_new) ==
    IF k > Len(new_items)
    THEN [ok |-> TRUE, sub_elements |-> sub_elements, elem_types |-> typesvec]
    ELSE LET step == MergeGroupStep(sub_elements, new_items[k], insert_pos,
                                    character_types, character_types_new)
         IN  IF step.ok
             THEN MergeGroupLoop(step.list, new_items, k + 1, step.insert_pos,
                                 typesvec \o step.pairs, character_types,
                                 character_types_new)
             ELSE [ok |-> FALSE, sub_elements |-> step.list, elem_types |-> typesvec]

\* mutant: the loop starts at the front whatever the first item is
FirstInsertPos_Zero(sub_elements) == 0

\* merge_group_types, lines 230-238: no element is inserted ahead of a
\* leading SHORT-NAME
FirstInsertPos(sub_elements) ==
    IF /\ Len(sub_elements) > 0
       /\ sub_elements[1].kind = "Element"
       /\ sub_elements[1].name = SHORT_NAME
    THEN 1 ELSE 0

\* merge_group_types.  status is "ok", "err" (the Err return) or "panicked"
\* (the unwrap of a group that input_xsd lacks).
merge_group_types(merged, typename, input, typename_input) ==
    IF typename_input \notin DOMAIN input.group_types
    THEN [status |-> "panicked", merged |-> merged, items |-> MergeItems(<<>>, <<>>)]
    ELSE LET element_collection == merged.group_types[typename]
             r == MergeGroupLoop(element_collection.sub_elements,
                                 input.group_types[typename_input].sub_elements,
                                 1, FirstInsertPos(element_collection.sub_elements),
                                 <<>>, merged.character_types, input.character_types)
         IN  [status |-> IF r.ok THEN "ok" ELSE "err",
              merged |-> [merged EXCEPT !.group_types[typename].sub_elements =
                                            r.sub_elements],
              items |-> MergeItems(IF r.ok THEN r.elem_types ELSE <<>>, <<>>)]

\* merge_elem_types.  status is "ok" or "panicked" (the unwrap of an element
\* type that input_xsd lacks).
merge_elem_types(merged, typename, input, typename_input) ==
    IF typename_input \notin DOMAIN input.element_types
    THEN [status |-> "panicked", merged |-> merged, items |-> MergeItems(<<>>, <<>>)]
    ELSE LET a == merged.element_types[typename]
             b == input.element_types[typename_input]
             ma == merge_attributes(a.attributes, b.attributes)
             with_attributes ==
                 [merged EXCEPT !.element_types[typename].attributes = ma.attributes]
         IN  IF a.kind = "Elements" /\ b.kind = "Elements"
             THEN [status |-> "ok",
                   merged |-> [with_attributes EXCEPT
                                  !.element_types[typename].xsd_typenames =
                                      @ \cup b.xsd_typenames],
                   items |-> MergeItems(<<GroupPair(a.group_ref, b.group_ref)>>,
                                        ma.char_types)]
             ELSE IF a.kind = "Characters" /\ b.kind = "Characters"
             THEN [status |-> "ok", merged |-> with_attributes,
                   items |-> MergeItems(<<>>,
                                Append(ma.char_types, <<a.basetype, b.basetype>>))]
             ELSE IF a.kind = "Mixed" /\ b.kind = "Mixed"
             THEN [status |-> "ok", merged |-> with_attributes,
                   items |-> MergeItems(<<GroupPair(a.group_ref, b.group_ref)>>,
                                Append(ma.char_types, <<a.basetype, b.basetype>>))]
             ELSE IF a.kind = "Mixed" /\ b.kind = "Characters"
             THEN [status |-> "ok", merged |-> with_attributes,
                   items |-> MergeItems(<<>>, ma.char_types)]
             ELSE [status |-> "ok", merged |-> merged,
                   items |-> MergeItems(<<>>, <<>>)]

\* mutant: a leaf type of the base takes over the incoming definition
merge_char_types_TakeIncoming(merged, typename, input, typename_input) ==
    IF typename_input \notin DOMAIN input.character_types
    THEN [status |-> "panicked", merged |-> merged]
    ELSE LET a == merged.character_types[typename]
             b == input.character_types[typename_input]
         IN  [status |-> "ok",
              merged |-> IF a.kind = "Enum" /\ b.kind = "Enum"
                         THEN [merged EXCEPT !.character_types[typename] =
                                                 merge_enums(a, b)]
                         ELSE IF b.kind = "Enum" THEN merged
                         ELSE [merged EXCEPT !.character_types[typename] = b]]

\* merge_char_types.  status is "ok" or "panicked" (the unwrap of a character
\* type that input_xsd lacks).
merge_char_types(merged, typename, input, typename_input) ==
    IF typename_input \notin DOMAIN input.character_types
    THEN [status |-> "panicked", merged |-> merged]
    ELSE LET a == merged.character_types[typename]
             b == input.character_types[typename_input]
         IN  [status |-> "ok",
              merged |-> IF a.kind = "Enum" /\ b.kind = "Enum"
                         THEN [merged EXCEPT !.character_types[typename] =
                                                 merge_enums(a, b)]
                         ELSE merged]

\* a map with one more entry (FxHashMap::insert of a name it lacks)
MapInsert(map, name, value) ==
    [n \in DOMAIN map \cup {name} |-> IF n = name THEN value ELSE map[n]]

\* Vec::pop takes the last entry
VecLast(vec) == vec[Len(vec)]
VecRest(vec) == SubSeq(vec, 1, Len(vec) - 1)

\* mutant: only the group pairs are remembered
CheckedInsert_GroupsOnly(already_checked, pair) ==
    IF Len(pair) = 3 /\ pair[1] = "Group" THEN already_checked \cup {pair}
    ELSE already_checked

\* already_checked.insert(pair)
CheckedInsert(already_checked, pair) == already_checked \cup {pair}

\* how a call of merge ended: its status, merged_xsd as it left it, and the
\* history of the pairs it reconciled, in order
MergeOutcome(status, merged, reconciled) ==
    [status |-> status, merged |-> merged, reconciled |-> reconciled]

\* merge, lines 84-104: the second loop, over merge_queue.char_types
RECURSIVE MergeCharLoop(_, _, _, _, _)
MergeCharLoop(merged, input, char_types, already_checked, reconciled) ==
    IF char_types = <<>> THEN MergeOutcome("ok", merged, reconciled)
    ELSE LET pair == VecLast(char_types)
             typename_merged == pair[1]
             typename_input == pair[2]
             copied ==
                 IF /\ typename_merged \notin DOMAIN merged.character_types
                    /\ typename_input \in DOMAIN input.character_types
                 THEN [merged EXCEPT !.character_types =
                          MapInsert(@, typename_merged,
                                    input.character_types[typename_input])]
                 ELSE merged
             r == IF typename_merged \in DOMAIN copied.character_types
                  THEN merge_char_types(copied, typename_merged, input, typename_input)
                  ELSE [status |-> "ok", merged |-> copied]
             reconciled2 == Append(reconciled, <<"Char", typename_merged, typename_input>>)
         IN  IF pair \in already_checked
             THEN MergeCharLoop(merged, input, VecRest(char_types), already_checked,
                                reconciled)
             ELSE IF r.status # "ok" THEN MergeOutcome(r.status, r.merged, reconciled2)
             ELSE MergeCharLoop(r.merged, input, VecRest(char_types),
                                CheckedInsert(already_checked, pair), reconciled2)

\* merge, lines 37-82: the first loop, over merge_queue.elem_types; an Err of
\* merge_group_types is returned by `?`
RECURSIVE MergeElemLoop(_, _, _, _, _, _)
MergeElemLoop(merged, input, elem_types, char_types, already_checked, reconciled) ==
    IF elem_types = <<>> THEN MergeCharLoop(merged, input, char_types, {}, reconciled)
    ELSE LET elem_or_group == VecLast(elem_types)
             is_element == elem_or_group[1] = "Element"
             typename_merged == elem_or_group[2]
             typename_input == elem_or_group[3]
             copied ==
                 IF is_element
                 THEN IF /\ typename_merged \notin DOMAIN merged.element_types
                         /\ typename_input \in DOMAIN input.element_types
                      THEN [merged EXCEPT !.element_types =
                               MapInsert(@, typename_merged,
                                         input.element_types[typename_input])]
                      ELSE merged
                 ELSE IF /\ typename_merged \notin DOMAIN merged.group_types
                         /\ typename_input \in DOMAIN input.group_types
                      THEN [merged EXCEPT !.group_types =
                               MapInsert(@, typename_merged,
                                         input.group_types[typename_input])]
                      ELSE merged
             present == IF is_element
                        THEN typename_merged \in DOMAIN copied.element_types
                        ELSE typename_merged \in DOMAIN copied.group_types
             r == IF ~present
                  THEN [status |-> "ok", merged |-> copied,
                        items |-> MergeItems(<<>>, <<>>)]
                  ELSE IF is_element
                  THEN merge_elem_types(copied, typename_merged, input, typename_input)
                  ELSE merge_group_types(copied, typename_merged, input, typename_input)
             reconciled2 == Append(reconciled, elem_or_group)
         IN  IF elem_or_group \in already_checked
             THEN MergeElemLoop(merged, input, VecRest(elem_types), char_types,
                                already_checked, reconciled)
             ELSE IF r.status # "ok"
             THEN MergeOutcome(r.status, r.merged, reconciled2)
             ELSE MergeElemLoop(r.merged, input,
                                VecRest(elem_types) \o r.items.elem_types,
                                char_types \o r.items.char_types,
                                CheckedInsert(already_checked, elem_or_group),
                                reconciled2)

\* merge(merged_xsd, input_xsd)
merge(merged, input) ==
    MergeElemLoop(merged, input, <<ElemPair(AR_AUTOSAR, AR_AUTOSAR)>>, <<>>, {}, <<>>)

(***************************************************************************)
(* The schemas merge is run on.  main.rs flattens every file with one      *)
(* version bit (1 << index) of its own, so all tags of input_xsd are one   *)
(* bit; merged_xsd is the newest file or the result of earlier merges, so  *)
(* its tags may hold several bits.  All references resolve.                *)
(***************************************************************************)
MaxGroupItems == 2   \* items of the root group of a drawn schema
MaxAttrs == 2        \* attributes of the root element type
MaxEnumItems == 2    \* items of the enum

BaseTags == {4, 6}
InputTags == {1, 2}

NameG == <<71>>
NameH == <<72>>
NameS == <<83>>
NameE == <<69>>
NameDesc == <<68, 69, 83, 67>>
NameA1 == <<97, 49>>
NameA2 == <<97, 50>>
NameA3 == <<97, 51>>
EnumValues == {<<112>>, <<113>>, <<114>>}

\* the sequences of at most n distinct members of a set
DistinctSeqs(set, n) ==
    UNION {{seq \in [1..k -> set] :
               \A i \in 1..k : \A j \in 1..k : i # j => seq[i] # seq[j]} : k \in 0..n}

GroupItemPool(tag) ==
    {ElementItem(SHORT_NAME, NameS, "One", tag), ElementItem(NameX, NameT, "Any", tag),
     ElementItem(NameX, NameS, "Any", tag), GroupRefItem(NameH),
     ElementItem(NameH, NameT, "ZeroOrOne", tag)}
AttributePool(tag) ==
    {Attribute(NameA1, NameE, TRUE, tag), Attribute(NameA2, NameS, FALSE, tag),
     Attribute(NameA3, NameE, FALSE, tag)}
EnumItemPool(tag) == {EnumItem(value, tag) : value \in EnumValues}

\* the schema with the drawn root group, root attributes and enum items;
\* is_base numbers the entries of merged_xsd in their orig field
MergeSchema(items, attrs, enumitems, gkind, tkind, skind, tag, is_base) ==
    LET orig(i) == IF is_base THEN i ELSE 0
        tracked_items == [i \in 1..Len(items) |-> TrackItem(items[i], orig(i))]
        tracked_attrs == [i \in 1..Len(attrs) |-> TrackAttribute(attrs[i], orig(i))]
        tracked_enum == [i \in 1..Len(enumitems) |-> TrackEnumItem(enumitems[i], orig(i))]
        typerefs == {items[i].typeref : i \in {j \in 1..Len(items) : items[j].kind = "Element"}}
        attr_types == {attrs[i].attr_type : i \in 1..Len(attrs)}
        has_T == NameT \in typerefs
        has_S == NameS \in typerefs
        has_H == (\E i \in 1..Len(items) : items[i] = GroupRefItem(NameH))
                     \/ (has_T /\ tkind # "Characters")
        has_E == has_T \/ NameE \in attr_types
        back == SequenceGroup(<<>>,
                    <<TrackItem(ElementItem(NameY, AR_AUTOSAR, "One", tag), orig(1))>>)
        root_group == IF gkind = "Sequence" THEN SequenceGroup(<<>>, tracked_items)
                      ELSE ChoiceGroup(<<>>, tracked_items, gkind)
        type_T == IF tkind = "Characters" THEN CharactersType(<<>>, NameE)
                  ELSE IF tkind = "Mixed" THEN MixedType(NameH, <<>>, NameE)
                  ELSE ElementsType(NameH, <<>>, {NameT})
        type_S == CASE skind = "String" -> StringType(<<>>, FALSE)
                    [] skind = "StringMax" -> StringType(<<8>>, TRUE)
                    [] skind = "Pattern" -> PatternType(<<94, 36>>, <<>>)
                    [] skind = "PatternMax" -> PatternType(<<94, 46, 36>>, <<8>>)
                    [] skind = "UnsignedInteger" -> UnsignedIntegerType
                    [] skind = "Double" -> DoubleType
    IN  AutosarDataTypes(
            (AR_AUTOSAR :> ElementsType(NameG, tracked_attrs, {AR_AUTOSAR}))
              @@ (IF has_T THEN NameT :> type_T ELSE EmptyMap)
              @@ (IF has_S THEN NameS :> CharactersType(<<>>, NameS) ELSE EmptyMap),
            (IF has_E THEN NameE :> EnumType(NameE, tracked_enum) ELSE EmptyMap)
              @@ (IF has_S \/ NameS \in attr_types THEN NameS :> type_S ELSE EmptyMap),
            (NameG :> root_group)
              @@ (IF has_H THEN NameH :> back ELSE EmptyMap))

\* the drawn schemas of one tag: each differs from the first one in its root
\* group, in its root attributes, in its enum or in the variant of a type
MergeSchemas(tag, is_base) ==
    LET items0 == <<ElementItem(SHORT_NAME, NameS, "One", tag),
                    ElementItem(NameX, NameT, "Any", tag)>>
        attrs0 == <<Attribute(NameA1, NameE, TRUE, tag)>>
        enum0 == <<EnumItem(<<112>>, tag)>>
    IN  {MergeSchema(items, attrs0, enum0, "Sequence", "Characters", "String",
                     tag, is_base) :
            items \in DistinctSeqs(GroupItemPool(tag), MaxGroupItems)}
        \cup {MergeSchema(items0, attrs, enum0, "Sequence", "Characters", "String",
                          tag, is_base) :
                attrs \in {a \in DistinctSeqs(AttributePool(tag), MaxAttrs) :
                              \A i \in 1..Len(a) : \A j \in 1..Len(a) :
                                  i # j => a[i].name # a[j].name}}
        \cup {MergeSchema(items0, attrs0, enumitems, "Sequence", "Characters", "String",
                          tag, is_base) :
                enumitems \in DistinctSeqs(EnumItemPool(tag), MaxEnumItems)}
        \cup {MergeSchema(<<ElementItem(SHORT_NAME, NameS, "One", tag),
                            ElementItem(NameDesc, NameT, "ZeroOrOne", tag)>>,
                          attrs0, enum0, "Sequence", "Characters", "String", tag, is_base)}
        \cup {MergeSchema(items0, attrs0, enum0, gkind, tkind, skind, tag, is_base) :
                gkind \in {"Sequence", "One", "Any"},
                tkind \in {"Characters", "Mixed", "Elements"},
                skind \in {"String", "Pattern"}}
        \cup {MergeSchema(<<ElementItem(NameX, NameT, "Any", tag)>>, attrs, enum0,
                          "Sequence", "Characters", "String", tag, is_base) :
                attrs \in {a \in DistinctSeqs(AttributePool(tag), MaxAttrs) :
                              \A i \in 1..Len(a) : \A j \in 1..Len(a) :
                                  i # j => a[i].name # a[j].name}}
        \cup {MergeSchema(items0, attrs0, enumitems, "Sequence", "Characters", skind,
                          tag, is_base) :
                skind \in {"StringMax", "PatternMax", "UnsignedInteger", "Double"},
                enumitems \in {enum0, <<EnumItem(<<113>>, tag)>>}}

InitMerge ==
    /\ \E tag \in BaseTags : merged_xsd \in MergeSchemas(tag, TRUE)
    /\ \E tag \in InputTags : input_xsd \in MergeSchemas(tag, FALSE)
    /\ merged_before = merged_xsd
    /\ merge_status = "ready"
    /\ merge_log = <<>>
    /\ IdleAmount /\ IdleHash /\ IdleLookup /\ IdleDedup /\ IdleCore /\ IdleFlatten /\ IdleInsert /\ IdleSanity

\* merge::merge(&mut merged_xsd, &input_xsd); merged_xsd is changed in place,
\* also when the call returns Err
Merge ==
    /\ merge_status = "ready"
    /\ LET outcome == merge(merged_xsd, input_xsd)
       IN  /\ merged_xsd' = outcome.merged
           /\ merge_status' = outcome.status
           /\ merge_log' = outcome.reconciled
    /\ UNCHANGED <<merged_before, input_xsd>>
    /\ UNCHANGED <<varsAmount, varsHash, varsLookup, varsDedup, varsCore, varsFlatten, varsInsert, varsSanity>>

NextMerge == Merge
SpecMerge == InitMerge /\ [][NextMerge]_vars

\* a has every bit of b
HasBits(a, b) == BitOr(a, b) = a

\* the lists of a schema whose entries carry version tags, by kind and owner
GroupNames(types) == DOMAIN types.group_types
ElemNames(types) == DOMAIN types.element_types
EnumNames(types) ==
    {n \in DOMAIN types.character_types : types.character_types[n].kind = "Enum"}

\* an entry of a list before the call is still in the list after it, the
\* same but for a version tag that lost no bit
EntryKept(old, list) ==
    \E j \in 1..Len(list) :
        /\ list[j].orig = old.orig
        /\ IF "version_info" \in DOMAIN old
           THEN /\ [list[j] EXCEPT !.version_info = old.version_info,
                                   !.seen = old.seen] = old
                /\ HasBits(list[j].version_info, old.version_info)
           ELSE list[j] = old
ListKept(old_list, list) == \A i \in 1..Len(old_list) : EntryKept(old_list[i], list)

\* every name, group item, attribute and enum item of `before` is in `after`
\* with all its version bits
Monotone(before, after) ==
    /\ GroupNames(before) \subseteq GroupNames(after)
    /\ ElemNames(before) \subseteq ElemNames(after)
    /\ DOMAIN before.character_types \subseteq DOMAIN after.character_types
    /\ \A g \in GroupNames(before) :
           ListKept(before.group_types[g].sub_elements,
                    after.group_types[g].sub_elements)
    /\ \A e \in ElemNames(before) :
           /\ ListKept(before.element_types[e].attributes,
                       after.element_types[e].attributes)
           /\ "xsd_typenames" \in DOMAIN before.element_types[e] =>
                  /\ "xsd_typenames" \in DOMAIN after.element_types[e]
                  /\ before.element_types[e].xsd_typenames
                         \subseteq after.element_types[e].xsd_typenames
    /\ \A c \in EnumNames(before) :
           /\ c \in EnumNames(after)
           /\ ListKept(before.character_types[c].enumitems,
                       after.character_types[c].enumitems)

\* C1: merge is monotone on the base: after merge(base, incoming), whether it
\* returned Ok or Err, every type name, group item, attribute and enum item
\* the base had before the call is still there, and no version bit any of
\* them had is cleared.
C1_MergeMonotone ==
    merge_status # "ready" => Monotone(merged_before, merged_xsd)

\* a call that returned Ok, copied a type from the incoming schema, put a new
\* item into a group of the base and added a bit to an item the base had
C1_Witness ==
    /\ merge_status = "ok"
    /\ ElemNames(merged_xsd) # ElemNames(merged_before)
    /\ \E g \in GroupNames(merged_before) :
          LET list == merged_xsd.group_types[g].sub_elements
              old == merged_before.group_types[g].sub_elements
          IN  /\ Len(list) > Len(old)
              /\ \E j \in 1..Len(list) :
                     /\ list[j].kind = "Element"
                     /\ list[j].orig > 0
                     /\ list[j].version_info # old[list[j].orig].version_info

\* the entries of a list that the base had before the call and that were
\* matched with an incoming entry carry the OR of their old tag and the
\* incoming tag
MatchedTagsAreOr(old_list, list) ==
    \A j \in 1..Len(list) :
        ("version_info" \in DOMAIN list[j] /\ list[j].orig > 0) =>
            \A t \in list[j].seen :
                list[j].version_info = BitOr(old_list[list[j].orig].version_info, t)

\* some entry the base had was matched and gained a bit
SomeMatchGrew(old_list, list) ==
    \E j \in 1..Len(list) :
        /\ "version_info" \in DOMAIN list[j]
        /\ list[j].orig > 0
        /\ list[j].seen # {}
        /\ list[j].version_info # old_list[list[j].orig].version_info

\* C2: after merge(base, incoming), the version tag of every matched group
\* element, attribute and enum item equals the bitwise OR of the tag it had
\* in the base before the call and the tag of its incoming counterpart.
C2_MatchedTagIsOr ==
    merge_status # "ready" =>
        /\ \A g \in GroupNames(merged_before) :
               MatchedTagsAreOr(merged_before.group_types[g].sub_elements,
                                merged_xsd.group_types[g].sub_elements)
        /\ \A e \in ElemNames(merged_before) :
               MatchedTagsAreOr(merged_before.element_types[e].attributes,
                                merged_xsd.element_types[e].attributes)
        /\ \A c \in EnumNames(merged_before) :
               MatchedTagsAreOr(merged_before.character_types[c].enumitems,
                                merged_xsd.character_types[c].enumitems)

\* a call that matched a group element, an attribute and an enum item of the
\* base, each of which gained the incoming bit
C2_Witness ==
    /\ merge_status = "ok"
    /\ \E g \in GroupNames(merged_before) :
           SomeMatchGrew(merged_before.group_types[g].sub_elements,
                         merged_xsd.group_types[g].sub_elements)
    /\ \E e \in ElemNames(merged_before) :
           SomeMatchGrew(merged_before.element_types[e].attributes,
                         merged_xsd.element_types[e].attributes)
    /\ \E c \in EnumNames(merged_before) :
           SomeMatchGrew(merged_before.character_types[c].enumitems,
                         merged_xsd.character_types[c].enumitems)

\* the root group of a schema: the group of the AR:AUTOSAR element type
RootItems(types) ==
    types.group_types[types.element_types[AR_AUTOSAR].group_ref].sub_elements

\* the names and the version tags of a list of elements
NamesOf(list) == [i \in 1..Len(list) |-> ItemName(list[i])]
TagsOf(list) == [i \in 1..Len(list) |-> list[i].version_info]

\* version A's root group holds the required SHORT-NAME, version B's holds
\* SHORT-NAME and the optional DESC, and B was merged into A
RoundTripMerged ==
    /\ merge_status = "ok"
    /\ NamesOf(RootItems(merged_before)) = <<SHORT_NAME>>
    /\ RootItems(merged_before)[1].version_info = 4
    /\ NamesOf(RootItems(input_xsd)) = <<SHORT_NAME, NameDesc>>
    /\ RootItems(input_xsd)[1].amount = "One"
    /\ RootItems(input_xsd)[2].amount = "ZeroOrOne"

\* C14 as stated: in the round-trip scenario the merged root group holds both
\* sub-elements, SHORT-NAME carries exactly A's version bit and DESC carries
\* exactly B's version bit.
C14_ShortNameKeepsOnlyA ==
    RoundTripMerged =>
        /\ NamesOf(RootItems(merged_xsd)) = <<SHORT_NAME, NameDesc>>
        /\ TagsOf(RootItems(merged_xsd)) =
               <<RootItems(merged_before)[1].version_info,
                 RootItems(input_xsd)[2].version_info>>

\* C14 amended: in the round-trip scenario the merged root group holds both
\* sub-elements, SHORT-NAME, which both versions have, carries A's and B's
\* version bits, and DESC carries exactly B's version bit.
C14_RoundTrip ==
    RoundTripMerged =>
        /\ NamesOf(RootItems(merged_xsd)) = <<SHORT_NAME, NameDesc>>
        /\ TagsOf(RootItems(merged_xsd)) =
               <<BitOr(RootItems(merged_before)[1].version_info,
                       RootItems(input_xsd)[1].version_info),
                 RootItems(input_xsd)[2].version_info>>

\* the scenario, merged: A has bit 4, B has bit 1
C14_Witness ==
    /\ RoundTripMerged
    /\ RootItems(input_xsd)[1].version_info = 1
    /\ Len(RootItems(merged_xsd)) = 2

\* C19: merge terminates on every pair of schemas, cyclic type graphs
\* included: the call ends, and each (base name, incoming name) pair of an
\* element type, of a group and of a character type is reconciled at most
\* once in the call.
C19_EachPairOnce ==
    /\ merge_status \in {"ready", "ok", "err"}
    /\ \A i \in 1..Len(merge_log) : \A j \in 1..Len(merge_log) :
           i # j => merge_log[i] # merge_log[j]

\* a call on a cyclic type graph (the root group refers to group H, whose
\* element refers to the root element type again) in which the pair of the
\* root element type came up a second time
C19_Witness ==
    /\ merge_status = "ok"
    /\ NameH \in DOMAIN merged_before.group_types
    /\ NameH \in DOMAIN input_xsd.group_types
    /\ \E i \in 1..Len(input_xsd.group_types[NameH].sub_elements) :
           input_xsd.group_types[NameH].sub_elements[i].typeref = AR_AUTOSAR
    /\ \E i \in 1..Len(merge_log) : merge_log[i] = GroupPair(NameH, NameH)
    /\ merge_log[1] = ElemPair(AR_AUTOSAR, AR_AUTOSAR)
    /\ \E i \in 1..Len(merge_log) : merge_log[i][1] = "Char"

\* the group pairs of the history whose two groups both exist
ReconciledGroups ==
    {<<merge_log[i][2], merge_log[i][3]>> :
        i \in {j \in 1..Len(merge_log) :
                  /\ merge_log[j][1] = "Group"
                  /\ merge_log[j][3] \in DOMAIN input_xsd.group_types
                  /\ merge_log[j][2] \in DOMAIN merged_xsd.group_types}}

\* the items of the base group as they were when its reconciliation began:
\* those of merged_xsd before the call, or the copy of the incoming group
GroupBefore(pair) ==
    IF pair[1] \in DOMAIN merged_before.group_types
    THEN merged_before.group_types[pair[1]].sub_elements
    ELSE input_xsd.group_types[pair[2]].sub_elements

\* an incoming item whose name only items of the other variant carry in the
\* base group
NameAcrossVariants(sub_elements, new_items) ==
    \E j \in 1..Len(new_items) :
        /\ \E i \in 1..Len(sub_elements) :
               ItemName(sub_elements[i]) = ItemName(new_items[j])
        /\ \A i \in 1..Len(sub_elements) :
               ItemName(sub_elements[i]) = ItemName(new_items[j])
                   => sub_elements[i].kind # new_items[j].kind

\* the first item an incoming item matches (same name, compatible) is of the
\* other variant
MatchAcrossVariants(sub_elements, new_items, character_types, character_types_new) ==
    \E j \in 1..Len(new_items) :
        LET find_pos == FirstIndex({i \in 1..Len(sub_elements) :
                            /\ ItemName(sub_elements[i]) = ItemName(new_items[j])
                            /\ element_is_compatible(sub_elements[i], new_items[j],
                                   character_types, character_types_new)})
        IN  find_pos >= 0 /\ sub_elements[find_pos + 1].kind # new_items[j].kind

SameElementAfter(pair, i) ==
    LET list == merged_xsd.group_types[pair[1]].sub_elements
    IN  list[CHOOSE j \in 1..Len(list) : list[j].orig = i]

\* the incoming element is in the merged group as an item of its own: an
\* item that came from input_xsd, with its name, typeref and version tag
InsertedAsOwnItem(pair, newelem) ==
    \E j \in 1..Len(merged_xsd.group_types[pair[1]].sub_elements) :
        LET item == merged_xsd.group_types[pair[1]].sub_elements[j]
        IN  /\ item.kind = "Element"
            /\ item.orig = 0
            /\ item.name = newelem.name
            /\ item.typeref = newelem.typeref
            /\ item.version_info = newelem.version_info

\* an element of the base group and an element of the incoming group of one
\* name whose character types differ in variant or presence
NameReused(cur, newelem) ==
    /\ cur.kind = "Element" /\ newelem.kind = "Element"
    /\ cur.name = newelem.name
    /\ CharKind(merged_before.character_types, cur.typeref)
           # CharKind(input_xsd.character_types, newelem.typeref)

\* the groups of the base that the call reconciled with an incoming group
ReconciledBaseGroups ==
    {pair \in ReconciledGroups : pair[1] \in DOMAIN merged_before.group_types}

\* C20 as stated: when an incoming element has the name of a base element of
\* the group and their character-data kinds differ, the base element's
\* version tag is unchanged and the incoming element is inserted into the
\* base group as a separate item.
C20_IncompatibleNeverMerged ==
    merge_status = "ok" =>
        \A pair \in ReconciledBaseGroups :
            LET old == merged_before.group_types[pair[1]].sub_elements
                new == input_xsd.group_types[pair[2]].sub_elements
            IN  \A i \in 1..Len(old) : \A k \in 1..Len(new) :
                    NameReused(old[i], new[k]) =>
                        /\ SameElementAfter(pair, i).version_info = old[i].version_info
                        /\ InsertedAsOwnItem(pair, new[k])

\* the base group when the turn of the k-th incoming item comes
GroupAtTurn(pair, k) ==
    MergeGroupLoop(merged_before.group_types[pair[1]].sub_elements,
                   SubSeq(input_xsd.group_types[pair[2]].sub_elements, 1, k - 1),
                   1, FirstInsertPos(merged_before.group_types[pair[1]].sub_elements),
                   <<>>, merged_before.character_types,
                   input_xsd.character_types).sub_elements

\* C20 amended: when an incoming element has the name of a base element of
\* the group and their character-data kinds differ, the two are not merged.
\* A base element whose kind differs from that of every incoming element of
\* its name keeps its version tag, and an incoming element whose kind
\* differs from that of every element of its name that the base group holds
\* when its turn comes is inserted into the base group as a separate item.
C20_NameReuseKeptApart ==
    merge_status = "ok" =>
        \A pair \in ReconciledBaseGroups :
            LET old == merged_before.group_types[pair[1]].sub_elements
                new == input_xsd.group_types[pair[2]].sub_elements
            IN  /\ \A i \in 1..Len(old) :
                       (/\ \E k \in 1..Len(new) : NameReused(old[i], new[k])
                        /\ \A k \in 1..Len(new) :
                               ItemName(new[k]) = ItemName(old[i])
                                   => NameReused(old[i], new[k]))
                           => /\ SameElementAfter(pair, i).version_info
                                     = old[i].version_info
                              /\ SameElementAfter(pair, i).seen = {}
                /\ \A k \in 1..Len(new) :
                       LET now == GroupAtTurn(pair, k)
                       IN  (/\ \E i \in 1..Len(now) : NameReused(now[i], new[k])
                            /\ \A i \in 1..Len(now) :
                                   ItemName(now[i]) = ItemName(new[k])
                                       => NameReused(now[i], new[k]))
                               => InsertedAsOwnItem(pair, new[k])

\* the base root group holds one element X whose type has no character
\* type, the incoming root group holds one element X of a string type; the
\* merged root group holds both, the one of the base with the tag it had
C20_Witness ==
    /\ merge_status = "ok"
    /\ \E i \in 1..Len(RootItems(merged_before)) :
          \E k \in 1..Len(RootItems(input_xsd)) :
             /\ RootItems(merged_before)[i].kind = "Element"
             /\ RootItems(merged_before)[i].name = NameX
             /\ RootItems(merged_before)[i].typeref = NameT
             /\ RootItems(input_xsd)[k].kind = "Element"
             /\ RootItems(input_xsd)[k].name = NameX
             /\ RootItems(input_xsd)[k].typeref = NameS
             /\ NameReused(RootItems(merged_before)[i], RootItems(input_xsd)[k])
    /\ Len(RootItems(merged_before)) = 1
    /\ Len(RootItems(input_xsd)) = 1
    /\ Len(RootItems(merged_xsd)) = 2
    /\ RootItems(merged_xsd)[1].typeref = NameS
    /\ RootItems(merged_xsd)[1].orig = 0
    /\ RootItems(merged_xsd)[2].orig = 1
    /\ RootItems(merged_xsd)[2].version_info = RootItems(merged_before)[1].version_info

(***************************************************************************)
(* core  (main.rs 210-260): every file of XSD_CONFIG that exists is loaded *)
(* and flattened with the version bit 1 << index, the last loaded schema   *)
(* becomes the merge base, the others are merged into it from the last to  *)
(* the first, and the result is deduplicated.                              *)
(***************************************************************************)
MaxFiles == 3   \* the leading entries of XSD_CONFIG that are modelled

\* the schema without the history fields of its items
UntrackItem(item) ==
    IF item.kind = "Element"
    THEN [kind |-> "Element", name |-> item.name, typeref |-> item.typeref,
          amount |-> item.amount, version_info |-> item.version_info,
          splittable |-> item.splittable, ordered |-> item.ordered,
          restrict_std |-> item.restrict_std, docstring |-> item.docstring]
    ELSE GroupRefItem(item.group)
UntrackList(list, kind) ==
    [i \in 1..Len(list) |->
        IF kind = "item" THEN UntrackItem(list[i])
        ELSE IF kind = "attribute"
        THEN Attribute(list[i].name, list[i].attr_type, list[i].required,
                       list[i].version_info)
        ELSE EnumItem(list[i].value, list[i].version_info)]
Untrack(types) ==
    AutosarDataTypes(
        [e \in DOMAIN types.element_types |->
            [types.element_types[e] EXCEPT !.attributes = UntrackList(@, "attribute")]],
        [c \in DOMAIN types.character_types |->
            IF types.character_types[c].kind = "Enum"
            THEN [types.character_types[c] EXCEPT !.enumitems = UntrackList(@, "enum")]
            ELSE types.character_types[c]],
        [g \in DOMAIN types.group_types |->
            [types.group_types[g] EXCEPT !.sub_elements = UntrackList(@, "item")]])

\* 1 << index
VersionBit(index) == 2 ^ index

\* what flatten_schema makes of the files that load: the root group, the
\* root attributes and the enum differ from file to file
CoreSchemas(tag) ==
    {MergeSchema(<<ElementItem(SHORT_NAME, NameS, "One", tag)>>,
                 <<Attribute(NameA1, NameE, TRUE, tag)>>,
                 <<EnumItem(<<112>>, tag)>>,
                 "Sequence", "Characters", "String", tag, FALSE),
     MergeSchema(<<ElementItem(SHORT_NAME, NameS, "One", tag),
                   ElementItem(NameDesc, NameT, "ZeroOrOne", tag)>>,
                 <<Attribute(NameA1, NameE, TRUE, tag),
                   Attribute(NameA2, NameS, FALSE, tag)>>,
                 <<EnumItem(<<112>>, tag), EnumItem(<<113>>, tag)>>,
                 "Sequence", "Characters", "String", tag, FALSE),
     MergeSchema(<<ElementItem(NameX, NameS, "Any", tag), GroupRefItem(NameH)>>,
                 <<Attribute(NameA1, NameE, TRUE, tag)>>,
                 <<EnumItem(<<113>>, tag)>>,
                 "Sequence", "Characters", "String", tag, FALSE),
     MergeSchema(<<ElementItem(NameH, NameT, "ZeroOrOne", tag),
                   ElementItem(NameX, NameT, "Any", tag)>>,
                 <<>>, <<EnumItem(<<114>>, tag)>>,
                 "Sequence", "Mixed", "String", tag, FALSE)}

\* a file of the directory: absent; present but rejected by Xsd::load or
\* flatten_schema (flattened = <<>>); or present and flattened
XsdFiles(index) ==
    {[exists |-> FALSE, flattened |-> <<>>], [exists |-> TRUE, flattened |-> <<>>]}
        \cup {[exists |-> TRUE, flattened |-> <<schema>>] :
                 schema \in CoreSchemas(VersionBit(index))}

InitCore ==
    /\ xsd_files \in {files \in [1..MaxFiles -> UNION {XsdFiles(i) : i \in 0..MaxFiles - 1}] :
                         \A i \in 1..MaxFiles : files[i] \in XsdFiles(i - 1)}
    /\ file_index = 0
    /\ autosar_schema_version = <<>>
    /\ autosar_schema = <<>>
    /\ core_pc = "load"
    /\ core_messages = <<>>
    /\ merge_order = <<>>
    /\ core_merge_logs = <<>>
    /\ IdleAmount /\ IdleHash /\ IdleLookup /\ IdleDedup /\ IdleMerge /\ IdleFlatten /\ IdleInsert /\ IdleSanity

\* main.rs 226-241: one round of the loop over XSD_CONFIG
CoreLoadFile ==
    /\ core_pc = "load"
    /\ file_index < MaxFiles
    /\ LET file == xsd_files[file_index + 1]
       IN  IF file.exists
           THEN IF file.flattened = <<>>
                THEN /\ core_pc' = "err"
                     /\ core_messages' = Append(core_messages,
                                                [text |-> "loading", index |-> file_index])
                     /\ UNCHANGED autosar_schema_version
                ELSE /\ autosar_schema_version' =
                            Append(autosar_schema_version,
                                   [index |-> file_index, schema |-> file.flattened[1]])
                     /\ core_messages' = Append(core_messages,
                                                [text |-> "loading", index |-> file_index])
                     /\ UNCHANGED core_pc
           ELSE /\ core_messages' = Append(core_messages,
                                           [text |-> "was not found", index |-> file_index])
                /\ UNCHANGED <<autosar_schema_version, core_pc>>
    /\ file_index' = file_index + 1
    /\ UNCHANGED <<xsd_files, autosar_schema, merge_order, core_merge_logs>>
    /\ UNCHANGED <<varsAmount, varsHash, varsLookup, varsDedup, varsMerge, varsFlatten, varsInsert, varsSanity>>

\* main.rs 243: autosar_schema_version.pop().unwrap()
CorePopBase ==
    /\ core_pc = "load"
    /\ file_index = MaxFiles
    /\ IF autosar_schema_version = <<>>
       THEN /\ core_pc' = "panicked"
            /\ UNCHANGED <<autosar_schema_version, autosar_schema, merge_order>>
       ELSE /\ core_pc' = "merge"
            /\ autosar_schema' = <<VecLast(autosar_schema_version).schema>>
            /\ merge_order' = <<VecLast(autosar_schema_version).index>>
            /\ autosar_schema_version' = VecRest(autosar_schema_version)
    /\ UNCHANGED <<xsd_files, file_index, core_messages, core_merge_logs>>
    /\ UNCHANGED <<varsAmount, varsHash, varsLookup, varsDedup, varsMerge, varsFlatten, varsInsert, varsSanity>>

\* main.rs 248-252: one round of the loop over autosar_schema_version.iter().rev()
CoreMerge ==
    /\ core_pc = "merge"
    /\ autosar_schema_version # <<>>
    /\ LET input == VecLast(autosar_schema_version)
           outcome == merge(autosar_schema[1], input.schema)
       IN  /\ autosar_schema' = <<outcome.merged>>
           /\ merge_order' = Append(merge_order, input.index)
           /\ core_merge_logs' = Append(core_merge_logs, outcome.reconciled)
           /\ core_pc' = IF outcome.status = "ok" THEN "merge" ELSE outcome.status
    /\ autosar_schema_version' = VecRest(autosar_schema_version)
    /\ UNCHANGED <<xsd_files, file_index, core_messages>>
    /\ UNCHANGED <<varsAmount, varsHash, varsLookup, varsDedup, varsMerge, varsFlatten, varsInsert, varsSanity>>

\* main.rs 254: dedup_types(&mut autosar_schema)
CoreDedup ==
    /\ core_pc = "merge"
    /\ autosar_schema_version = <<>>
    /\ LET outcome == dedup_types_main(Untrack(autosar_schema[1]), <<>>)
       IN  /\ autosar_schema' = <<outcome.types>>
           /\ core_pc' = IF outcome.status = "returned" THEN "generate" ELSE "panicked"
    /\ UNCHANGED <<xsd_files, file_index, autosar_schema_version, core_messages,
                   merge_order, core_merge_logs>>
    /\ UNCHANGED <<varsAmount, varsHash, varsLookup, varsDedup, varsMerge, varsFlatten, varsInsert, varsSanity>>

\* main.rs 257-259: generator::generate and Ok(())
CoreGenerate ==
    /\ core_pc = "generate"
    /\ core_pc' = "done"
    /\ UNCHANGED <<xsd_files, file_index, autosar_schema_version, autosar_schema,
                   core_messages, merge_order, core_merge_logs>>
    /\ UNCHANGED <<varsAmount, varsHash, varsLookup, varsDedup, varsMerge, varsFlatten, varsInsert, varsSanity>>

NextCore == CoreLoadFile \/ CorePopBase \/ CoreMerge \/ CoreDedup \/ CoreGenerate
SpecCore == InitCore /\ [][NextCore]_vars

\* ---- claims about core ----

CoreMessage(text, index) ==
    \E m \in 1..Len(core_messages) : core_messages[m] = [text |-> text, index |-> index]
LoadedIndices ==
    {i \in 0..MaxFiles - 1 : xsd_files[i + 1].exists /\ xsd_files[i + 1].flattened # <<>>}
PendingIndices ==
    {autosar_schema_version[k].index : k \in 1..Len(autosar_schema_version)}
MergedIndices == {merge_order[k] : k \in 1..Len(merge_order)}

\* C18: whichever of the schema files exist, every file the loop has passed
\* was loaded and flattened if present and was reported as not found if
\* absent, and the run never aborts with a panic on account of absent files.
C18_AbsentFilesNeverAbort ==
    /\ \A i \in 0..file_index - 1 :
          IF xsd_files[i + 1].exists
          THEN /\ CoreMessage("loading", i)
               /\ i \in LoadedIndices /\ core_pc \in {"load", "merge"} =>
                      i \in PendingIndices \cup MergedIndices
          ELSE CoreMessage("was not found", i)
    /\ ~ (core_pc = "panicked" /\ \A i \in 1..MaxFiles : ~ xsd_files[i].exists)

FlattenedFile(index) == xsd_files[index + 1].flattened[1]
EntryName(entry, kind) ==
    IF kind = "item" THEN ItemName(entry)
    ELSE IF kind = "attribute" THEN entry.name ELSE entry.value
EntryNames(list, kind) == {EntryName(list[i], kind) : i \in 1..Len(list)}
Versioned(entry) == "version_info" \in DOMAIN entry

\* the newest loaded file is the base and the others follow from newer to older
NewestSeedsDescending ==
    /\ Len(merge_order) > 0
    /\ \A i \in LoadedIndices : merge_order[1] >= i
    /\ \A k \in 1..Len(merge_order) - 1 : merge_order[k] > merge_order[k + 1]
    /\ MergedIndices \cup PendingIndices = LoadedIndices

EnumItemsOf(types, c) ==
    IF types.character_types[c].kind = "Enum" THEN types.character_types[c].enumitems
    ELSE <<>>
BothHave(older, newest, merged, field) ==
    DOMAIN older[field] \cap DOMAIN newest[field] \cap DOMAIN merged[field]
NoOlderOnly(olderlist, newestlist, mergedlist, kind) ==
    (EntryNames(olderlist, kind) \ EntryNames(newestlist, kind))
        \cap EntryNames(mergedlist, kind) = {}

\* C15 as stated: the newest loaded version is the base and the older ones
\* are merged in descending order, and a group item, attribute or enum
\* literal of an older version that the newest version lacks does not appear
\* in the merged schema.
C15_OlderOnlyConstructDropped ==
    core_pc = "merge" =>
        /\ NewestSeedsDescending
        /\ \A k \in 2..Len(merge_order) :
              LET older == FlattenedFile(merge_order[k])
                  newest == FlattenedFile(merge_order[1])
                  merged == autosar_schema[1]
              IN  /\ \A g \in BothHave(older, newest, merged, "group_types") :
                         NoOlderOnly(older.group_types[g].sub_elements,
                                     newest.group_types[g].sub_elements,
                                     merged.group_types[g].sub_elements, "item")
                  /\ \A e \in BothHave(older, newest, merged, "element_types") :
                         NoOlderOnly(older.element_types[e].attributes,
                                     newest.element_types[e].attributes,
                                     merged.element_types[e].attributes, "attribute")
                  /\ \A c \in BothHave(older, newest, merged, "character_types") :
                         NoOlderOnly(EnumItemsOf(older, c), EnumItemsOf(newest, c),
                                     EnumItemsOf(merged, c), "enum")

\* every entry of olderlist is in mergedlist under its name with the older
\* version's bit, and an entry whose name newestlist lacks is there without
\* the newest version's bit
ListKeptTagged(olderlist, newestlist, mergedlist, kind, older_bit, newest_bit) ==
    \A i \in 1..Len(olderlist) :
        LET name == EntryName(olderlist[i], kind)
            same == {j \in 1..Len(mergedlist) : EntryName(mergedlist[j], kind) = name}
        IN  /\ \E j \in same :
                   Versioned(mergedlist[j]) => HasBits(mergedlist[j].version_info, older_bit)
            /\ name \notin EntryNames(newestlist, kind) =>
                   \A j \in same :
                       Versioned(mergedlist[j]) =>
                           ~ HasBits(mergedlist[j].version_info, newest_bit)

\* merge_elem_types hands the attributes of these pairs of variants to
\* merge_attributes
AttributesReconciled(kind, kind_new) ==
    kind = kind_new \/ (kind = "Mixed" /\ kind_new = "Characters")

\* the lists of one reconciled pair keep what the older version has
KeptFrom(pair, index) ==
    LET older == FlattenedFile(index)
        newest == FlattenedFile(merge_order[1])
        merged == autosar_schema[1]
        older_bit == VersionBit(index)
        newest_bit == VersionBit(merge_order[1])
    IN  IF pair[1] = "Group"
        THEN ListKeptTagged(older.group_types[pair[3]].sub_elements,
                            IF pair[2] \in DOMAIN newest.group_types
                            THEN newest.group_types[pair[2]].sub_elements ELSE <<>>,
                            merged.group_types[pair[2]].sub_elements,
                            "item", older_bit, newest_bit)
        ELSE IF pair[1] = "Element"
        THEN AttributesReconciled(merged.element_types[pair[2]].kind,
                                  older.element_types[pair[3]].kind) =>
                 ListKeptTagged(older.element_types[pair[3]].attributes,
                                IF pair[2] \in DOMAIN newest.element_types
                                THEN newest.element_types[pair[2]].attributes ELSE <<>>,
                                merged.element_types[pair[2]].attributes,
                                "attribute", older_bit, newest_bit)
        ELSE ListKeptTagged(EnumItemsOf(older, pair[3]),
                            IF pair[2] \in DOMAIN newest.character_types
                            THEN EnumItemsOf(newest, pair[2]) ELSE <<>>,
                            IF merged.character_types[pair[2]].kind = "Enum"
                            THEN EnumItemsOf(merged, pair[2]) ELSE EnumItemsOf(older, pair[3]),
                            "enum", older_bit, newest_bit)

\* C15 (amended): the newest loaded version is the base and the older ones
\* are merged in descending order; a group item, attribute or enum literal
\* of an older version is kept wherever its list was reconciled: it appears
\* in the merged list with the older version's bit, and without the newest
\* version's bit when the newest version lacks it.
C15_OlderOnlyConstructKept ==
    core_pc = "merge" =>
        /\ NewestSeedsDescending
        /\ \A k \in 1..Len(core_merge_logs) :
              \A p \in 1..Len(core_merge_logs[k]) :
                  KeptFrom(core_merge_logs[k][p], merge_order[k + 1])

\* all three files were merged; DESC, the attribute A2 and the literal "q"
\* exist in the two older files only and are in the merged schema
C15_Witness ==
    /\ core_pc = "merge"
    /\ merge_order = <<2, 1, 0>>
    /\ NameDesc \notin EntryNames(RootItems(FlattenedFile(2)), "item")
    /\ \E j \in 1..Len(RootItems(autosar_schema[1])) :
          /\ RootItems(autosar_schema[1])[j].kind = "Element"
          /\ RootItems(autosar_schema[1])[j].name = NameDesc
          /\ RootItems(autosar_schema[1])[j].version_info = 3
    /\ LET attributes == autosar_schema[1].element_types[AR_AUTOSAR].attributes
       IN  \E j \in 1..Len(attributes) :
               attributes[j].name = NameA2 /\ attributes[j].version_info = 3
    /\ LET enumitems == EnumItemsOf(autosar_schema[1], NameE)
       IN  \E j \in 1..Len(enumitems) :
               enumitems[j].value = <<113>> /\ enumitems[j].version_info = 3

(***************************************************************************)
(* The parsed grammar  (xsd.rs 11-145)  and  flatten_schema  (flatten.rs)  *)
(* A fallible function returns [status, value]: status is "Ok", "Err" (the *)
(* function returned Err) or "panicked" (todo!() or a failed slice).       *)
(***************************************************************************)
\* struct XsdElement, struct XsdAttribute
XsdElement(name, typeref, min_occurs, max_occurs) ==
    [name |-> name, typeref |-> typeref, min_occurs |-> min_occurs,
     max_occurs |-> max_occurs]
XsdAttribute(name, typeref, required) ==
    [name |-> name, typeref |-> typeref, required |-> required]

\* enum XsdModelGroupItem
XsdModelGroup(group_ref) == [kind |-> "Group", group_ref |-> group_ref]
XsdModelChoice(choice) == [kind |-> "Choice", choice |-> choice]
XsdModelElement(xsd_element) == [kind |-> "Element", xsd_element |-> xsd_element]

\* struct XsdChoice, struct XsdSequence
XsdChoice(min_occurs, max_occurs, items) ==
    [min_occurs |-> min_occurs, max_occurs |-> max_occurs, items |-> items]
XsdSequence(items) == [items |-> items]

\* struct XsdGroup with its XsdGroupItem
XsdGroupChoice(choice) == [kind |-> "Choice", choice |-> choice]
XsdGroupSequence(sequence) == [kind |-> "Sequence", sequence |-> sequence]
XsdGroupNone == [kind |-> "None"]

\* enum XsdType; a complex type holds its XsdComplexTypeItem
XsdBase(name) == [kind |-> "Base", name |-> name]
XsdSimple(restriction) == [kind |-> "Simple", restriction |-> restriction]
XsdExtension(basetype, attributes, attribute_groups) ==
    [basetype |-> basetype, attributes |-> attributes,
     attribute_groups |-> attribute_groups]
XsdComplexSimpleContent(name, extension, attribute_groups) ==
    [kind |-> "Complex", name |-> name, item |-> "SimpleContent",
     extension |-> extension, attribute_groups |-> attribute_groups,
     mixed_content |-> FALSE]
XsdComplexGroup(name, group_ref, attribute_groups, mixed_content) ==
    [kind |-> "Complex", name |-> name, item |-> "Group", group_ref |-> group_ref,
     attribute_groups |-> attribute_groups, mixed_content |-> mixed_content]
XsdComplexNone(name, attribute_groups) ==
    [kind |-> "Complex", name |-> name, item |-> "None",
     attribute_groups |-> attribute_groups, mixed_content |-> FALSE]

\* enum XsdRestriction
RestrictionEnumValues(enumvalues) == [kind |-> "EnumValues", enumvalues |-> enumvalues]
RestrictionPattern(pattern, maxlength) ==
    [kind |-> "Pattern", pattern |-> pattern, maxlength |-> maxlength]
RestrictionPlain(basetype) == [kind |-> "Plain", basetype |-> basetype]
RestrictionLiteral == [kind |-> "Literal"]

\* struct Xsd
Xsd(root_elements, groups, types, attribute_groups, version_info) ==
    [root_elements |-> root_elements, groups |-> groups, types |-> types,
     attribute_groups |-> attribute_groups, version_info |-> version_info]

\* Ok(value), Err(..), and the abort of todo!()
FlattenOk(value) == [status |-> "Ok", value |-> value]
FlattenErr == [status |-> "Err", value |-> <<>>]
FlattenPanic == [status |-> "panicked", value |-> <<>>]

\* mutant: an unbounded occurrence counts as optional
occurs_to_amount_NeverAny(min_occurs, max_occurs) ==
    IF min_occurs = 1 /\ max_occurs = 1 THEN "One" ELSE "ZeroOrOne"

\* occurs_to_amount
occurs_to_amount(min_occurs, max_occurs) ==
    IF min_occurs = 1 /\ max_occurs = 1 THEN "One"
    ELSE IF min_occurs = 0 /\ max_occurs = 1 THEN "ZeroOrOne"
    ELSE "Any"

\* Element::new
ElementNew(xsd_element, version_info) ==
    ElementItem(xsd_element.name, xsd_element.typeref,
                occurs_to_amount(xsd_element.min_occurs, xsd_element.max_occurs),
                version_info)

\* the prefix "AR:"
ArPrefix == <<65, 82, 58>>

\* build_attribute
build_attribute(data, attr) ==
    IF attr.typeref \notin DOMAIN data.types THEN FlattenErr
    ELSE IF data.types[attr.typeref].kind = "Complex" THEN FlattenErr
    ELSE FlattenOk(Attribute(attr.name, attr.typeref, attr.required, data.version_info))

RECURSIVE BuildAttributesLoop(_, _, _, _)
BuildAttributesLoop(data, xsd_attributes, k, attributes) ==
    IF k > Len(xsd_attributes) THEN FlattenOk(attributes)
    ELSE LET built == build_attribute(data, xsd_attributes[k])
         IN  IF built.status # "Ok" THEN built
             ELSE BuildAttributesLoop(data, xsd_attributes, k + 1,
                                      Append(attributes, built.value))

\* mutant: an attribute group the grammar lacks is passed over
RECURSIVE BuildAttributeGroupsLoop_SkipMissing(_, _, _, _)
BuildAttributeGroupsLoop_SkipMissing(data, xsd_attribute_groups, k, attributes) ==
    IF k > Len(xsd_attribute_groups) THEN FlattenOk(attributes)
    ELSE IF xsd_attribute_groups[k] \notin DOMAIN data.attribute_groups
    THEN BuildAttributeGroupsLoop_SkipMissing(data, xsd_attribute_groups, k + 1,
                                              attributes)
    ELSE LET built == BuildAttributesLoop(data,
                          data.attribute_groups[xsd_attribute_groups[k]], 1, attributes)
         IN  IF built.status # "Ok" THEN built
             ELSE BuildAttributeGroupsLoop_SkipMissing(data, xsd_attribute_groups,
                                                       k + 1, built.value)

RECURSIVE BuildAttributeGroupsLoop(_, _, _, _)
BuildAttributeGroupsLoop(data, xsd_attribute_groups, k, attributes) ==
    IF k > Len(xsd_attribute_groups) THEN FlattenOk(attributes)
    ELSE IF xsd_attribute_groups[k] \notin DOMAIN data.attribute_groups THEN FlattenErr
    ELSE LET built == BuildAttributesLoop(data,
                          data.attribute_groups[xsd_attribute_groups[k]], 1, attributes)
         IN  IF built.status # "Ok" THEN built
             ELSE BuildAttributeGroupsLoop(data, xsd_attribute_groups, k + 1, built.value)

\* build_attribute_list
build_attribute_list(data, xsd_attributes, xsd_attribute_groups) ==
    LET own == BuildAttributesLoop(data, xsd_attributes, 1, <<>>)
    IN  IF own.status # "Ok" THEN own
        ELSE BuildAttributeGroupsLoop(data, xsd_attribute_groups, 1, own.value)

\* flatten_simple_type
flatten_simple_type(data, simple_type, typename) ==
    LET restriction == simple_type.restriction
    IN  IF restriction.kind = "Pattern"
        THEN FlattenOk(PatternType(restriction.pattern, restriction.maxlength))
        ELSE IF restriction.kind = "Plain"
        THEN IF restriction.basetype = XsdDouble THEN FlattenOk(DoubleType)
             ELSE IF restriction.basetype = XsdUnsignedInt
             THEN FlattenOk(UnsignedIntegerType)
             ELSE IF restriction.basetype \in {XsdString, XsdNmtoken, XsdNmtokens}
             THEN FlattenOk(StringType(<<>>, FALSE))
             ELSE FlattenErr
        ELSE IF restriction.kind = "Literal" THEN FlattenOk(StringType(<<>>, TRUE))
        ELSE FlattenOk(EnumType(typename,
                 [i \in 1..Len(restriction.enumvalues) |->
                     EnumItem(restriction.enumvalues[i], data.version_info)]))

\* flatten_choice_choice: the elements, the amount and the name of the outer
\* choice after an inner choice was taken in
flatten_choice_choice(outer_choice, elements, sub_elements, outer_amount, inner_amount, outer_name, inner_name) ==
    IF Len(outer_choice.items) = 1
    THEN FlattenOk([elements |-> elements \o sub_elements,
                    outer_amount |-> combine_amounts(outer_amount, inner_amount),
                    name |-> IF outer_name = <<>> /\ inner_name # <<>>
                             THEN inner_name ELSE outer_name])
    ELSE IF outer_amount = inner_amount
    THEN FlattenOk([elements |-> elements \o sub_elements,
                    outer_amount |-> outer_amount, name |-> outer_name])
    ELSE FlattenPanic

\* group_ref.split_at(3).1
SplitAt3(group_ref) == SubSeq(group_ref, 4, Len(group_ref))

RECURSIVE flatten_group(_, _)
RECURSIVE flatten_choice(_, _)
RECURSIVE flatten_sequence(_, _)
RECURSIVE FlattenChoiceLoop(_, _, _, _, _, _, _)
RECURSIVE FlattenSequenceItems(_, _, _, _)

\* flatten_group
flatten_group(data, group) ==
    IF group.kind = "Sequence" THEN flatten_sequence(data, group.sequence)
    ELSE IF group.kind = "Choice" THEN flatten_choice(data, group.choice)
    ELSE FlattenErr

\* the loop of flatten_choice from item k on and the result built after it
\* mutant: the choice is returned also when a replacement was noted
ChoiceResult_NoReplacement(replacement, name, elements, outer_amount) ==
    ChoiceGroup(name, elements, outer_amount)

\* flatten_choice, lines 363-371: the replacement if there is one, else the
\* choice of the collected elements
ChoiceResult(replacement, name, elements, outer_amount) ==
    IF replacement # <<>> THEN replacement[1]
    ELSE ChoiceGroup(name, elements, outer_amount)

FlattenChoiceLoop(data, choice, k, elements, outer_amount, name, replacement) ==
    IF k > Len(choice.items)
    THEN FlattenOk(ChoiceResult(replacement, name, elements, outer_amount))
    ELSE LET item == choice.items[k]
         IN  IF item.kind = "Group"
             THEN IF item.group_ref \notin DOMAIN data.groups THEN FlattenErr
                  ELSE LET inner == flatten_group(data, data.groups[item.group_ref])
                       IN  IF inner.status # "Ok" THEN inner
                           ELSE IF inner.value.name = <<>> /\ Len(item.group_ref) < 3
                           THEN FlattenPanic
                           ELSE LET inner_name == IF inner.value.name = <<>>
                                                  THEN SplitAt3(item.group_ref)
                                                  ELSE inner.value.name
                                    sub_elements == inner.value.sub_elements
                                IN  IF inner.value.kind = "Choice"
                                    THEN LET cc == flatten_choice_choice(choice, elements,
                                                       sub_elements, outer_amount,
                                                       inner.value.amount, name, inner_name)
                                         IN  IF cc.status # "Ok" THEN cc
                                             ELSE FlattenChoiceLoop(data, choice, k + 1,
                                                      cc.value.elements,
                                                      cc.value.outer_amount,
                                                      cc.value.name, replacement)
                                    ELSE IF Len(sub_elements) = 1
                                    THEN FlattenChoiceLoop(data, choice, k + 1,
                                             Append(elements, sub_elements[1]),
                                             outer_amount, name, replacement)
                                    ELSE IF outer_amount = "Any"
                                    THEN FlattenChoiceLoop(data, choice, k + 1,
                                             elements \o sub_elements,
                                             outer_amount, name, replacement)
                                    ELSE IF Len(choice.items) = 1
                                    THEN FlattenChoiceLoop(data, choice, k + 1, elements,
                                             outer_amount, name,
                                             <<SequenceGroup(inner_name, sub_elements)>>)
                                    ELSE IF sub_elements # <<>>
                                    THEN FlattenChoiceLoop(data, choice, k + 1,
                                             Append(elements,
                                                    GroupRefItem(ArPrefix \o inner_name)),
                                             outer_amount, name, replacement)
                                    ELSE FlattenPanic
             ELSE IF item.kind = "Choice"
             THEN LET inner == flatten_choice(data, item.choice)
                  IN  IF inner.status # "Ok" THEN inner
                      ELSE IF inner.value.kind = "Sequence" THEN FlattenPanic
                      ELSE LET cc == flatten_choice_choice(choice, elements,
                                         inner.value.sub_elements, outer_amount,
                                         inner.value.amount, name, inner.value.name)
                           IN  IF cc.status # "Ok" THEN cc
                               ELSE FlattenChoiceLoop(data, choice, k + 1,
                                        cc.value.elements, cc.value.outer_amount,
                                        cc.value.name, replacement)
             ELSE FlattenChoiceLoop(data, choice, k + 1,
                      Append(elements, ElementNew(item.xsd_element, data.version_info)),
                      outer_amount, name, replacement)

\* flatten_choice
flatten_choice(data, choice) ==
    FlattenChoiceLoop(data, choice, 1, <<>>,
                      occurs_to_amount(choice.min_occurs, choice.max_occurs), <<>>, <<>>)

\* the first loop of flatten_sequence: the flattened items of the sequence
FlattenSequenceItems(data, sequence, k, flat_items) ==
    IF k > Len(sequence.items) THEN FlattenOk(flat_items)
    ELSE LET item == sequence.items[k]
         IN  IF item.kind = "Group"
             THEN IF item.group_ref \notin DOMAIN data.groups THEN FlattenErr
                  ELSE LET inner == flatten_group(data, data.groups[item.group_ref])
                       IN  IF inner.status # "Ok" THEN inner
                           ELSE FlattenSequenceItems(data, sequence, k + 1,
                                                     Append(flat_items, inner.value))
             ELSE IF item.kind = "Choice"
             THEN LET inner == flatten_choice(data, item.choice)
                  IN  IF inner.status # "Ok" THEN inner
                      ELSE FlattenSequenceItems(data, sequence, k + 1,
                                                Append(flat_items, inner.value))
             ELSE FlattenSequenceItems(data, sequence, k + 1,
                      Append(flat_items,
                             SequenceGroup(<<>>, <<ElementNew(item.xsd_element,
                                                              data.version_info)>>)))

\* the number of flattened items that hold any element
NonemptyInputs(flat_items) ==
    Cardinality({i \in 1..Len(flat_items) : flat_items[i].sub_elements # <<>>})

\* the second loop of flatten_sequence from flat item idx on and the result
\* built after it
RECURSIVE FlattenSequenceLoop(_, _, _, _, _, _)
FlattenSequenceLoop(data, sequence, flat_items, idx, elements, replacement) ==
    IF idx > Len(flat_items)
    THEN IF replacement # <<>> THEN FlattenOk(replacement[1])
         ELSE FlattenOk(SequenceGroup(<<>>, elements))
    ELSE LET item == flat_items[idx]
             sub_elements == item.sub_elements
         IN  IF item.kind = "Sequence"
             THEN FlattenSequenceLoop(data, sequence, flat_items, idx + 1,
                                      elements \o sub_elements, replacement)
             ELSE IF Len(sub_elements) = 0
             THEN FlattenSequenceLoop(data, sequence, flat_items, idx + 1, elements,
                                      replacement)
             ELSE IF Len(sub_elements) = 1
             THEN LET single == sub_elements[1]
                      combined == IF single.kind = "Element"
                                  THEN [single EXCEPT !.amount =
                                           combine_amounts(item.amount, single.amount)]
                                  ELSE single
                  IN  FlattenSequenceLoop(data, sequence, flat_items, idx + 1,
                                          Append(elements, combined), replacement)
             ELSE IF NonemptyInputs(flat_items) = 1
             THEN FlattenSequenceLoop(data, sequence, flat_items, idx + 1, elements,
                      <<ChoiceGroup(item.name, sub_elements, item.amount)>>)
             ELSE IF sequence.items[idx].kind = "Group"
             THEN FlattenSequenceLoop(data, sequence, flat_items, idx + 1,
                      Append(elements, GroupRefItem(sequence.items[idx].group_ref)),
                      replacement)
             ELSE IF (ArPrefix \o item.name) \in DOMAIN data.groups
             THEN FlattenSequenceLoop(data, sequence, flat_items, idx + 1,
                      Append(elements, GroupRefItem(ArPrefix \o item.name)),
                      replacement)
             ELSE FlattenPanic

\* flatten_sequence
flatten_sequence(data, sequence) ==
    LET flat == FlattenSequenceItems(data, sequence, 1, <<>>)
    IN  IF flat.status # "Ok" THEN flat
        ELSE FlattenSequenceLoop(data, sequence, flat.value, 1, <<>>, <<>>)

\* strip_ar_prefix
strip_ar_prefix(typename) ==
    IF Len(typename) >= 3 /\ SubSeq(typename, 1, 3) = ArPrefix
    THEN SubSeq(typename, 4, Len(typename)) ELSE typename

\* the generic base types that never name the target of a reference
NameReferrable == <<82, 69, 70, 69, 82, 82, 65, 66, 76, 69>>
NameArObject == <<65, 82, 45, 79, 66, 74, 69, 67, 84>>
NameIdentifiable == <<73, 68, 69, 78, 84, 73, 70, 73, 65, 66, 76, 69>>
NameMultilanguageReferrable ==
    <<77, 85, 76, 84, 73, 76, 65, 78, 71, 85, 65, 71, 69, 45, 82, 69, 70, 69, 82, 82,
      65, 66, 76, 69>>
GenericBaseTypes ==
    {NameArObject, NameReferrable, NameIdentifiable, NameMultilanguageReferrable}

\* the xsd_typenames of a complex type over a sequence group
XsdTypenames(complex_type_name, sequence) ==
    LET collected == {strip_ar_prefix(complex_type_name)}
                         \cup {strip_ar_prefix(sequence.items[i].group_ref) :
                                  i \in {j \in 1..Len(sequence.items) :
                                            sequence.items[j].kind = "Group"}}
    IN  IF NameReferrable \in collected THEN collected \ GenericBaseTypes ELSE {}

RECURSIVE flatten_complex_type(_, _, _)
RECURSIVE flatten_simple_content(_, _)

\* flatten_complex_type
flatten_complex_type(data, complex_type, complex_type_name) ==
    LET built == build_attribute_list(data, <<>>, complex_type.attribute_groups)
    IN  IF built.status # "Ok" THEN built
        ELSE IF complex_type.item = "SimpleContent"
        THEN flatten_simple_content(data, complex_type.extension)
        ELSE IF complex_type.item = "None" THEN FlattenErr
        ELSE IF complex_type.group_ref \notin DOMAIN data.groups THEN FlattenErr
        ELSE LET group == data.groups[complex_type.group_ref]
             IN  IF group.kind = "Sequence"
                 THEN FlattenOk(ElementsType(complex_type.group_ref, built.value,
                                    XsdTypenames(complex_type_name, group.sequence)))
                 ELSE IF group.kind = "Choice"
                 THEN IF complex_type.mixed_content
                      THEN FlattenOk(MixedType(complex_type.group_ref, built.value,
                                               XsdString))
                      ELSE FlattenOk(ElementsType(complex_type.group_ref, built.value, {}))
                 ELSE FlattenErr

\* flatten_simple_content, handed the <extension> of the simple content
flatten_simple_content(data, extension) ==
    IF extension.basetype \notin DOMAIN data.types THEN FlattenErr
    ELSE LET basetype == data.types[extension.basetype]
             built == build_attribute_list(data, extension.attributes,
                                           extension.attribute_groups)
         IN  IF built.status # "Ok" THEN built
             ELSE IF basetype.kind \in {"Base", "Simple"}
             THEN FlattenOk(CharactersType(built.value, extension.basetype))
             ELSE LET inner == flatten_complex_type(data, basetype, extension.basetype)
                  IN  IF inner.status # "Ok" THEN inner
                      ELSE IF inner.value.kind = "Mixed" THEN inner
                      ELSE FlattenOk([inner.value EXCEPT
                                         !.attributes = @ \o built.value])

\* enum WorkQueueItem
WorkElementType(name) == <<"ElementType", name>>
WorkCharacterType(name) == <<"CharacterType", name>>
WorkGroup(name) == <<"Group", name>>

\* enqueue_dependencies
enqueue_dependencies(work_queue, elemtype) ==
    work_queue
      \o (IF elemtype.kind \in {"Elements", "Mixed"}
          THEN <<WorkGroup(elemtype.group_ref)>> ELSE <<>>)
      \o [i \in 1..Len(elemtype.attributes) |->
             WorkCharacterType(elemtype.attributes[i].attr_type)]
      \o (IF elemtype.kind \in {"Characters", "Mixed"}
          THEN <<WorkCharacterType(elemtype.basetype)>> ELSE <<>>)

\* enqueue_group_dependencies
enqueue_group_dependencies(work_queue, group) ==
    work_queue
      \o [i \in 1..Len(group.sub_elements) |->
             IF group.sub_elements[i].kind = "Element"
             THEN WorkElementType(group.sub_elements[i].typeref)
             ELSE WorkGroup(group.sub_elements[i].group)]

\* the attributes flatten_schema gives to the root data type AR:AUTOSAR
NameXmlns == <<120, 109, 108, 110, 115>>
NameXmlnsXsi == <<120, 109, 108, 110, 115, 58, 120, 115, 105>>
NameSchemaLocation == <<120, 115, 105, 58, 115, 99, 104, 101, 109, 97, 76, 111, 99, 97, 116, 105, 111, 110>>
RootAttributes(version_info) ==
    <<Attribute(NameXmlns, XsdString, TRUE, version_info),
      Attribute(NameXmlnsXsi, XsdString, TRUE, version_info),
      Attribute(NameSchemaLocation, XsdString, TRUE, version_info)>>

\* mutant: the three attributes are put ahead of those of the grammar
WithRootAttributes_Prepend(data, types) ==
    IF AR_AUTOSAR \in DOMAIN types.element_types
       /\ types.element_types[AR_AUTOSAR].kind = "Elements"
    THEN [types EXCEPT !.element_types[AR_AUTOSAR].attributes =
             RootAttributes(data.version_info) \o @]
    ELSE types

\* what follows the work queue loop of flatten_schema
WithRootAttributes(data, types) ==
    IF AR_AUTOSAR \in DOMAIN types.element_types
       /\ types.element_types[AR_AUTOSAR].kind = "Elements"
    THEN [types EXCEPT !.element_types[AR_AUTOSAR].attributes =
             @ \o RootAttributes(data.version_info)]
    ELSE types

\* the work queue loop of flatten_schema
RECURSIVE FlattenWorkLoop(_, _, _)
FlattenWorkLoop(data, types, work_queue) ==
    IF work_queue = <<>> THEN FlattenOk(WithRootAttributes(data, types))
    ELSE LET cur == VecLast(work_queue)
             rest == VecRest(work_queue)
             name == cur[2]
         IN  IF cur[1] = "ElementType"
             THEN IF name \in DOMAIN types.element_types
                  THEN FlattenWorkLoop(data, types, rest)
                  ELSE IF name \in DOMAIN data.types /\ data.types[name].kind = "Complex"
                  THEN LET elemtype == flatten_complex_type(data, data.types[name], name)
                       IN  IF elemtype.status # "Ok" THEN elemtype
                           ELSE FlattenWorkLoop(data,
                                    [types EXCEPT !.element_types =
                                        MapInsert(@, name, elemtype.value)],
                                    enqueue_dependencies(rest, elemtype.value))
                  ELSE FlattenWorkLoop(data,
                           [types EXCEPT !.element_types =
                               MapInsert(@, name, CharactersType(<<>>, name))],
                           Append(rest, WorkCharacterType(name)))
             ELSE IF cur[1] = "CharacterType"
             THEN IF name \in DOMAIN types.character_types
                  THEN FlattenWorkLoop(data, types, rest)
                  ELSE IF name \in DOMAIN data.types /\ data.types[name].kind = "Simple"
                  THEN LET chartype == flatten_simple_type(data, data.types[name], name)
                       IN  IF chartype.status # "Ok" THEN chartype
                           ELSE FlattenWorkLoop(data,
                                    [types EXCEPT !.character_types =
                                        MapInsert(@, name, chartype.value)],
                                    rest)
                  ELSE FlattenErr
             ELSE IF name \in DOMAIN data.groups
             THEN LET group == flatten_group(data, data.groups[name])
                  IN  IF group.status # "Ok" THEN group
                      ELSE FlattenWorkLoop(data,
                               [types EXCEPT !.group_types =
                                   MapInsert(@, name, group.value)],
                               enqueue_group_dependencies(rest, group.value))
             ELSE FlattenWorkLoop(data, types, rest)

\* flatten_schema
flatten_schema(data) ==
    IF Len(data.root_elements) # 1 THEN FlattenErr
    ELSE FlattenWorkLoop(data,
             AutosarDataTypes(EmptyMap, SeededCharacterTypes, EmptyMap),
             [i \in 1..Len(data.root_elements) |->
                 WorkElementType(data.root_elements[i].typeref)])

(***************************************************************************)
(* Specification SpecFlatten: flatten_schema on grammars as Xsd::load      *)
(* builds them (group names carry the prefix "AR:", a choice inside a      *)
(* sequence is a group of its own, the base types are present).            *)
(***************************************************************************)
ArG == ArPrefix \o NameG
ArH == ArPrefix \o NameH
ArK == ArPrefix \o <<75>>
ArJ == ArPrefix \o <<74>>
ArZ == ArPrefix \o <<90>>      \* a group no grammar defines
NameC == <<67>>
NameM == <<77>>                \* a type no grammar defines
NameAG == <<65, 71>>
NameAZ == <<65, 90>>           \* an attribute group no grammar defines
XmlSpace == <<88, 77, 76, 58, 83, 80, 65, 67, 69>>

\* the types Xsd::load enters ahead of parsing
StandardTypes ==
       (XmlSpace :> XsdSimple(RestrictionEnumValues(<<<<100>>, <<112>>>>)))
    @@ (XsdString :> XsdBase(XsdString))
    @@ (XsdNmtoken :> XsdBase(XsdNmtoken))
    @@ (XsdNmtokens :> XsdBase(XsdNmtokens))
    @@ (XsdUnsignedInt :> XsdBase(XsdUnsignedInt))
    @@ (XsdDouble :> XsdBase(XsdDouble))

OneElement(name, typeref) == XsdModelElement(XsdElement(name, typeref, 1, 1))

\* a grammar: the root type AR:AUTOSAR over the sequence group AR:G, the
\* mixed type T over the choice group AR:H, the simple content type C, the
\* simple type S, the sequence groups AR:K (two elements) and AR:J (one
\* element) and the attribute group AG
FlattenGrammar(roots, root_group, root_mixed, root_attribute_groups, g_items, h_choice, k_typeref, ag_typeref, c_basetype, s_restriction) ==
    Xsd(roots,
           (ArG :> XsdGroupSequence(XsdSequence(g_items)))
        @@ (ArH :> XsdGroupChoice(h_choice))
        @@ (ArK :> XsdGroupSequence(XsdSequence(
                       <<OneElement(NameA1, NameS), OneElement(NameA2, k_typeref)>>)))
        @@ (ArJ :> XsdGroupSequence(XsdSequence(<<OneElement(NameA3, NameS)>>))),
           StandardTypes
        @@ (AR_AUTOSAR :> XsdComplexGroup(AR_AUTOSAR, root_group,
                                          root_attribute_groups, root_mixed))
        @@ (NameT :> XsdComplexGroup(NameT, ArH, <<>>, TRUE))
        @@ (NameC :> XsdComplexSimpleContent(NameC,
                         XsdExtension(c_basetype,
                                      <<XsdAttribute(NameA3, NameS, FALSE)>>, <<>>),
                         <<>>))
        @@ (NameS :> XsdSimple(s_restriction)),
        (NameAG :> <<XsdAttribute(NameA1, ag_typeref, TRUE)>>),
        1)

RootElements ==
    {<<>>,
     <<XsdElement(NameX, AR_AUTOSAR, 1, 1)>>,
     <<XsdElement(NameX, NameM, 1, 1)>>,
     <<XsdElement(NameX, NameT, 1, 1)>>,
     <<XsdElement(NameX, AR_AUTOSAR, 1, 1), XsdElement(NameY, NameT, 1, 1)>>}
RootSequences ==
    {<<OneElement(SHORT_NAME, NameS)>>,
     <<OneElement(NameX, NameT), OneElement(NameY, NameC)>>,
     <<OneElement(NameX, NameM)>>,
     <<XsdModelGroup(ArH), OneElement(NameX, NameS)>>,
     <<XsdModelGroup(ArK), XsdModelGroup(ArH)>>,
     <<OneElement(NameX, NameS), XsdModelGroup(ArZ)>>}
ChoiceItems ==
    {<<OneElement(NameX, NameS), OneElement(NameY, NameC)>>,
     <<XsdModelGroup(ArK)>>,
     <<XsdModelGroup(ArJ)>>,
     <<XsdModelGroup(ArK), OneElement(NameX, NameS)>>,
     <<OneElement(NameX, NameT), XsdModelGroup(ArZ)>>,
     <<XsdModelChoice(XsdChoice(0, 2, <<OneElement(NameX, NameS)>>)), XsdModelGroup(ArZ)>>,
     <<XsdModelChoice(XsdChoice(0, 2, <<OneElement(NameX, NameS)>>)),
       OneElement(NameY, NameS)>>,
     <<XsdModelChoice(XsdChoice(1, 1, <<OneElement(NameX, NameS),
                                        OneElement(NameY, NameM)>>))>>}
Choices == {XsdChoice(occurs[1], occurs[2], items) :
               occurs \in {<<1, 1>>, <<0, 1>>, <<0, 2>>}, items \in ChoiceItems}
Restrictions ==
    {RestrictionEnumValues(<<<<112>>, <<113>>>>), RestrictionPlain(XsdString),
     RestrictionPlain(NameM)}
DefaultRoots == <<XsdElement(NameX, AR_AUTOSAR, 1, 1)>>
DefaultSequence == <<OneElement(NameX, NameT), OneElement(NameY, NameC), XsdModelGroup(ArK)>>
DefaultChoice == XsdChoice(0, 2, <<OneElement(NameX, NameS), OneElement(NameY, NameC)>>)

\* the drawn grammars: the shapes of the groups vary, or the references do
FlattenGrammars ==
    {FlattenGrammar(roots, ArG, FALSE, <<>>, g_items, h_choice, NameS, XsdString,
                    XsdString, RestrictionEnumValues(<<<<112>>, <<113>>>>)) :
        roots \in RootElements, g_items \in RootSequences, h_choice \in Choices}
    \cup
    {FlattenGrammar(DefaultRoots, ArH, TRUE, root_attribute_groups, DefaultSequence,
                    h_choice, NameS, XsdString, XsdString,
                    RestrictionEnumValues(<<<<112>>, <<113>>>>)) :
        root_attribute_groups \in {<<>>, <<NameAG>>}, h_choice \in Choices}
    \cup
    {FlattenGrammar(DefaultRoots, root_group, FALSE, root_attribute_groups,
                    DefaultSequence, DefaultChoice, k_typeref, ag_typeref, c_basetype,
                    s_restriction) :
        root_group \in {ArG, ArZ},
        root_attribute_groups \in {<<>>, <<NameAG>>, <<NameAZ>>},
        k_typeref \in {NameS, NameM},
        ag_typeref \in {XsdString, NameM, NameT},
        c_basetype \in {XsdString, NameS, NameM, NameT},
        s_restriction \in Restrictions}

InitFlatten ==
    /\ flatten_data \in {<<data>> : data \in FlattenGrammars}
    /\ flatten_result = <<>>
    /\ IdleAmount /\ IdleHash /\ IdleLookup /\ IdleDedup /\ IdleMerge /\ IdleCore
    /\ IdleInsert /\ IdleSanity

\* main.rs 233: flatten::flatten_schema(&xsd)
Flatten ==
    /\ flatten_result = <<>>
    /\ flatten_result' = <<flatten_schema(flatten_data[1])>>
    /\ UNCHANGED flatten_data
    /\ UNCHANGED <<varsAmount, varsHash, varsLookup, varsDedup, varsMerge, varsCore, varsInsert, varsSanity>>

NextFlatten == Flatten
SpecFlatten == InitFlatten /\ [][NextFlatten]_vars

\* ---- claims about flatten_schema ----

\* a reference of the grammar to a type, a group or an attribute group
RefType(name) == <<"type", name>>
RefGroup(name) == <<"group", name>>
RefAttributeGroup(name) == <<"attribute_group", name>>

RECURSIVE ItemsRefs(_)
ItemsRefs(items) ==
    UNION {IF items[i].kind = "Group" THEN {RefGroup(items[i].group_ref)}
           ELSE IF items[i].kind = "Element" THEN {RefType(items[i].xsd_element.typeref)}
           ELSE ItemsRefs(items[i].choice.items) : i \in 1..Len(items)}
AttributesRefs(attributes) == {RefType(attributes[i].typeref) : i \in 1..Len(attributes)}
AttributeGroupsRefs(names) == {RefAttributeGroup(names[i]) : i \in 1..Len(names)}

Resolves(data, ref) ==
    IF ref[1] = "type" THEN ref[2] \in DOMAIN data.types
    ELSE IF ref[1] = "group" THEN ref[2] \in DOMAIN data.groups
    ELSE ref[2] \in DOMAIN data.attribute_groups

\* the references written in the construct a resolved reference leads to
RefsOf(data, ref) ==
    IF ref[1] = "type"
    THEN LET type == data.types[ref[2]]
         IN  IF type.kind = "Complex"
             THEN AttributeGroupsRefs(type.attribute_groups)
                    \cup (IF type.item = "Group" THEN {RefGroup(type.group_ref)}
                          ELSE IF type.item = "SimpleContent"
                          THEN {RefType(type.extension.basetype)}
                                 \cup AttributesRefs(type.extension.attributes)
                                 \cup AttributeGroupsRefs(type.extension.attribute_groups)
                          ELSE {})
             ELSE IF type.kind = "Simple" /\ type.restriction.kind = "Plain"
             THEN {RefType(type.restriction.basetype)}
             ELSE {}
    ELSE IF ref[1] = "group"
    THEN LET group == data.groups[ref[2]]
         IN  IF group.kind = "Sequence" THEN ItemsRefs(group.sequence.items)
             ELSE IF group.kind = "Choice" THEN ItemsRefs(group.choice.items)
             ELSE {}
    ELSE AttributesRefs(data.attribute_groups[ref[2]])

RECURSIVE ReachableRefs(_, _)
ReachableRefs(data, refs) ==
    LET next == refs \cup UNION {RefsOf(data, ref) :
                                    ref \in {r \in refs : Resolves(data, r)}}
    IN  IF next = refs THEN refs ELSE ReachableRefs(data, next)
RootRefs(data) ==
    {RefType(data.root_elements[i].typeref) : i \in 1..Len(data.root_elements)}
UnresolvedRefs(data) ==
    {ref \in ReachableRefs(data, RootRefs(data)) : ~ Resolves(data, ref)}

MaxInsertLen == 3   \* incoming items handed to one loop

\* the character types the compatibility test of merge_group_types reads
InsertBaseChars == (NameS :> StringType(<<>>, FALSE)) @@ (NameE :> EnumType(NameE, <<>>))
InsertNewChars(skind) ==
    (NameS :> (IF skind = "String" THEN StringType(<<>>, FALSE)
               ELSE PatternType(<<94, 36>>, <<>>)))
      @@ (NameE :> EnumType(NameE, <<>>))

\* the schema of the older of the two incoming files declares S as a pattern
InsertNewKind(new_tag) ==
    IF \A tag \in InputTags : new_tag <= tag THEN "Pattern" ELSE "String"

\* the base list keeps its positions in the orig field; incoming entries
\* carry orig 0
TrackedSeqs(pool, n, is_base, Track(_, _)) ==
    {[i \in 1..Len(list) |-> Track(list[i], IF is_base THEN i ELSE 0)] :
        list \in DistinctSeqs(pool, n)}

\* the state on entry of one of the loops: `let mut insert_pos = 0;` and, in
\* merge_group_types, the test for a leading SHORT-NAME
InitInsert ==
    /\ \E base_tag \in BaseTags, new_tag \in InputTags :
        \/ /\ ins_kind = "group"
           /\ ins_list \in TrackedSeqs(GroupItemPool(base_tag), MaxGroupItems, TRUE, TrackItem)
           /\ ins_new \in TrackedSeqs(GroupItemPool(new_tag), MaxInsertLen, FALSE, TrackItem)
           /\ ins_chars = <<InsertBaseChars, InsertNewChars(InsertNewKind(new_tag))>>
           /\ ins_pos = FirstInsertPos(ins_list)
        \/ /\ ins_kind = "attributes"
           /\ ins_list \in TrackedSeqs(AttributePool(base_tag), MaxAttrs, TRUE, TrackAttribute)
           /\ ins_new \in TrackedSeqs(AttributePool(new_tag), MaxInsertLen, FALSE,
                                      TrackAttribute)
           /\ ins_chars = <<>>
           /\ ins_pos = 0
        \/ /\ ins_kind = "enums"
           /\ ins_list \in TrackedSeqs(EnumItemPool(base_tag), MaxEnumItems, TRUE, TrackEnumItem)
           /\ ins_new \in TrackedSeqs(EnumItemPool(new_tag), MaxInsertLen, FALSE,
                                      TrackEnumItem)
           /\ ins_chars = <<>>
           /\ ins_pos = 0
    /\ ins_k = 1
    /\ ins_status = "run"
    /\ ins_log = <<>>
    /\ IdleAmount /\ IdleHash /\ IdleLookup /\ IdleDedup /\ IdleMerge /\ IdleCore
    /\ IdleFlatten /\ IdleSanity

\* what one pass of a loop body did: the incoming item, the index it was
\* found at (-1: not found), the value of insert_pos it met, the list before
\* and after
InsertLogEntry(newitem, find_pos, insert_pos, before, after) ==
    [newitem |-> newitem, find_pos |-> find_pos, insert_pos |-> insert_pos,
     before |-> before, after |-> after]

\* merge_group_types, lines 245-310: one pass of `for newelem in items_new`
InsertGroupStep ==
    /\ ins_status = "run" /\ ins_kind = "group" /\ ins_k <= Len(ins_new)
    /\ LET step == MergeGroupStep(ins_list, ins_new[ins_k], ins_pos, ins_chars[1],
                                  ins_chars[2])
       IN  /\ ins_list' = step.list
           /\ ins_pos' = step.insert_pos
           /\ ins_status' = IF step.ok THEN "run" ELSE "err"
           /\ ins_log' = Append(ins_log, InsertLogEntry(ins_new[ins_k], step.find_pos,
                                             ins_pos, ins_list, step.list))
    /\ ins_k' = ins_k + 1
    /\ UNCHANGED <<ins_kind, ins_new, ins_chars>>
    /\ UNCHANGED <<varsAmount, varsHash, varsLookup, varsDedup, varsMerge, varsCore, varsFlatten, varsSanity>>

\* merge_attributes, lines 324-342: one pass of `for newattr in attributes_new`
InsertAttributesStep ==
    /\ ins_status = "run" /\ ins_kind = "attributes" /\ ins_k <= Len(ins_new)
    /\ LET step == MergeAttributesStep(ins_list, ins_new[ins_k], ins_pos)
       IN  /\ ins_list' = step.list
           /\ ins_pos' = step.insert_pos
           /\ ins_log' = Append(ins_log, InsertLogEntry(ins_new[ins_k], step.find_pos,
                                             ins_pos, ins_list, step.list))
    /\ ins_k' = ins_k + 1
    /\ UNCHANGED <<ins_kind, ins_new, ins_chars, ins_status>>
    /\ UNCHANGED <<varsAmount, varsHash, varsLookup, varsDedup, varsMerge, varsCore, varsFlatten, varsSanity>>

\* merge_enums, lines 361-372: one pass of `for (newitem, newver) in enumitems_new`
InsertEnumsStep ==
    /\ ins_status = "run" /\ ins_kind = "enums" /\ ins_k <= Len(ins_new)
    /\ LET step == MergeEnumsStep(ins_list, ins_new[ins_k], ins_pos)
       IN  /\ ins_list' = step.list
           /\ ins_pos' = step.insert_pos
           /\ ins_log' = Append(ins_log, InsertLogEntry(ins_new[ins_k], step.find_pos,
                                             ins_pos, ins_list, step.list))
    /\ ins_k' = ins_k + 1
    /\ UNCHANGED <<ins_kind, ins_new, ins_chars, ins_status>>
    /\ UNCHANGED <<varsAmount, varsHash, varsLookup, varsDedup, varsMerge, varsCore, varsFlatten, varsSanity>>

\* the loop is through: the function returns
InsertReturn ==
    /\ ins_status = "run" /\ ins_k > Len(ins_new)
    /\ ins_status' = "done"
    /\ UNCHANGED <<ins_kind, ins_list, ins_new, ins_k, ins_pos, ins_chars, ins_log>>
    /\ UNCHANGED <<varsAmount, varsHash, varsLookup, varsDedup, varsMerge, varsCore, varsFlatten, varsSanity>>

NextInsert == InsertGroupStep \/ InsertAttributesStep \/ InsertEnumsStep \/ InsertReturn
SpecInsert == InitInsert /\ [][NextInsert]_vars

\* ---- claims about the insertion loops ----

\* the index at which the item of a pass sits after the pass
Landing(entry) == IF entry.find_pos >= 0 THEN entry.find_pos ELSE entry.insert_pos

\* the pass put its incoming item, as it came, at index `at` and left every
\* other entry where it was relative to the others
InsertedAt(entry, at) ==
    /\ at >= 0 /\ at <= Len(entry.before)
    /\ Len(entry.after) = Len(entry.before) + 1
    /\ entry.after[at + 1] = entry.newitem
    /\ \A i \in 1..Len(entry.before) :
          entry.before[i] = entry.after[IF i <= at THEN i ELSE i + 1]

\* the entries of the base list that are in `list`, by their first position
BaseOrder(list) == SelectSeq([i \in 1..Len(list) |-> list[i].orig], LAMBDA o : o > 0)

RECURSIVE Increasing(_)
Increasing(seq) ==
    IF Len(seq) < 2 THEN TRUE ELSE seq[1] < seq[2] /\ Increasing(Tail(seq))

\* C21: in merge_group_types, merge_attributes and merge_enums every incoming
\* item that matches nothing is inserted at the index right after the item
\* of the pass before it (matched or inserted), with exactly its own version
\* tag, and the items of the base keep their relative order.
C21_PositionalInsert ==
    /\ \A k \in 1..Len(ins_log) :
          ins_log[k].find_pos = -1 =>
              /\ \E at \in 0..Len(ins_log[k].before) : InsertedAt(ins_log[k], at)
              /\ k > 1 => InsertedAt(ins_log[k], Landing(ins_log[k - 1]) + 1)
              /\ \E i \in 1..Len(ins_list) :
                    /\ ins_list[i].orig = 0
                    /\ ins_list[i] = ins_new[k]
    /\ Increasing(BaseOrder(ins_list))
    /\ Len(BaseOrder(ins_list)) = Len(ins_list) - Cardinality({k \in 1..Len(ins_log) : ins_log[k].find_pos = -1})

\* an unmatched item follows a matched one that is not the last of the list,
\* and an unmatched item follows an inserted one
C21_Witness ==
    /\ ins_status = "done" /\ Len(ins_log) = 3
    /\ ins_log[1].find_pos = 0 /\ Len(ins_log[1].before) = 2
    /\ ins_log[2].find_pos = -1 /\ ins_log[3].find_pos = -1
    /\ ins_log[2].insert_pos = 1 /\ ins_log[3].insert_pos = 2
    /\ Len(ins_list) = 4

\* the item is the element named SHORT-NAME
IsShortName(item) == item.kind = "Element" /\ item.name = SHORT_NAME

\* C29: when the first item of the base group is the element SHORT-NAME,
\* that element is at position 0 after every pass of merge_group_types and
\* at its end (nothing is inserted ahead of it), and every insertion of
\* merge_group_types uses an index that is at most the length of the list
\* at that moment.
C29_ShortNameStaysFirst ==
    ins_kind = "group" =>
        /\ \A k \in 1..Len(ins_log) :
              /\ (Len(ins_log[1].before) > 0 /\ IsShortName(ins_log[1].before[1])) =>
                    /\ ins_log[k].after[1].orig = 1
                    /\ IsShortName(ins_log[k].after[1])
              /\ ins_log[k].find_pos = -1 =>
                    ins_log[k].insert_pos <= Len(ins_log[k].before)
        /\ ins_pos <= Len(ins_list)
        /\ (ins_log # <<>> /\ Len(ins_log[1].before) > 0 /\ IsShortName(ins_log[1].before[1])) =>
              /\ ins_list[1].orig = 1
              /\ IsShortName(ins_list[1])

\* a base group SHORT-NAME, X met two incoming items that match nothing and
\* one that matches the last base item: both are inserted behind SHORT-NAME
\* and the last insertion is at the end of the list
C29_Witness ==
    /\ ins_kind = "group" /\ ins_status = "done" /\ Len(ins_log) = 3
    /\ Len(ins_log[1].before) = 2 /\ IsShortName(ins_log[1].before[1])
    /\ ins_log[1].find_pos = -1 /\ ins_log[1].insert_pos = 1
    /\ ins_log[2].find_pos = 2
    /\ ins_log[3].find_pos = -1 /\ ins_log[3].insert_pos = Len(ins_log[3].before)
    /\ IsShortName(ins_list[1]) /\ ins_list[1].orig = 1

\* ---- claims about merge_char_types ----

\* the character type is one of the leaf variants
IsLeafType(chartype) == chartype.kind \in {"Pattern", "String", "UnsignedInteger", "Double"}

\* the (base name, incoming name) pairs of character types that the call
\* reconciled with both types present
ReconciledChars ==
    {<<merge_log[i][2], merge_log[i][3]>> :
        i \in {j \in 1..Len(merge_log) :
                  /\ merge_log[j][1] = "Char"
                  /\ merge_log[j][2] \in DOMAIN merged_before.character_types
                  /\ merge_log[j][3] \in DOMAIN input_xsd.character_types}}

\* C22: merge leaves every Pattern, String, UnsignedInteger and Double
\* character type of the base as it was, also when the incoming character
\* type it was reconciled with has another regex, length or variant; a
\* character type of the base that is changed is an Enum that was reconciled
\* with an incoming Enum, and only its literal list is changed.
C22_LeafTypesUntouched ==
    \A name \in DOMAIN merged_before.character_types :
        LET before == merged_before.character_types[name]
        IN  /\ name \in DOMAIN merged_xsd.character_types
            /\ IsLeafType(before) => merged_xsd.character_types[name] = before
            /\ merged_xsd.character_types[name] # before =>
                  /\ before.kind = "Enum"
                  /\ merged_xsd.character_types[name].kind = "Enum"
                  /\ merged_xsd.character_types[name].name = before.name
                  /\ \E pair \in ReconciledChars :
                        /\ pair[1] = name
                        /\ input_xsd.character_types[pair[2]].kind = "Enum"

\* the String S of the base was reconciled with an incoming Pattern S of
\* another length and stayed, while the Enum E took a literal of the
\* incoming Enum E
C22_Witness ==
    /\ merge_status = "ok"
    /\ <<NameS, NameS>> \in ReconciledChars
    /\ <<NameE, NameE>> \in ReconciledChars
    /\ merged_before.character_types[NameS] = StringType(<<8>>, TRUE)
    /\ input_xsd.character_types[NameS] = PatternType(<<94, 46, 36>>, <<8>>)
    /\ merged_xsd.character_types[NameS] = StringType(<<8>>, TRUE)
    /\ Len(merged_xsd.character_types[NameE].enumitems)
          > Len(merged_before.character_types[NameE].enumitems)

\* ---- claims about the references of a merged schema ----

\* the references of a schema that do not resolve: the group of an element
\* type, the type of an element item, the group of a group item, the
\* character type of an attribute, the basetype of an element type
DanglingGroupRefs(schema) ==
    {<<"group_ref", t, schema.element_types[t].group_ref>> :
        t \in {u \in DOMAIN schema.element_types :
                  /\ schema.element_types[u].kind \in {"Elements", "Mixed"}
                  /\ schema.element_types[u].group_ref \notin DOMAIN schema.group_types}}
DanglingBasetypes(schema) ==
    {<<"basetype", t, schema.element_types[t].basetype>> :
        t \in {u \in DOMAIN schema.element_types :
                  /\ schema.element_types[u].kind \in {"Characters", "Mixed"}
                  /\ schema.element_types[u].basetype \notin DOMAIN schema.character_types}}
DanglingAttributes(schema) ==
    UNION {{<<"attribute", t, schema.element_types[t].attributes[i].attr_type>> :
               i \in {j \in 1..Len(schema.element_types[t].attributes) :
                         schema.element_types[t].attributes[j].attr_type
                             \notin DOMAIN schema.character_types}} :
           t \in DOMAIN schema.element_types}
DanglingItems(schema) ==
    UNION {{IF schema.group_types[g].sub_elements[i].kind = "Element"
            THEN <<"element", g, schema.group_types[g].sub_elements[i].typeref>>
            ELSE <<"group", g, schema.group_types[g].sub_elements[i].group>> :
               i \in {j \in 1..Len(schema.group_types[g].sub_elements) :
                         LET item == schema.group_types[g].sub_elements[j]
                         IN  IF item.kind = "Element"
                             THEN item.typeref \notin DOMAIN schema.element_types
                             ELSE item.group \notin DOMAIN schema.group_types}} :
           g \in DOMAIN schema.group_types}
DanglingRefs(schema) ==
    DanglingGroupRefs(schema) \cup DanglingBasetypes(schema)
        \cup DanglingAttributes(schema) \cup DanglingItems(schema)

\* C23: if every group reference, every element item's type, every
\* attribute's character type and every basetype resolves in the base and in
\* the incoming schema, then after merge returned Ok all of them resolve in
\* the base, the character type of an attribute inserted as unmatched too.
C23_MergeKeepsReferencesResolved ==
    (/\ merge_status = "ok"
     /\ DanglingRefs(merged_before) = {}
     /\ DanglingRefs(input_xsd) = {})
        => DanglingRefs(merged_xsd) = {}

\* ---- claims about groups of different shape ----

\* the base group of the pair is a Choice and the incoming group is a
\* Sequence or a Choice of another multiplicity
ChoiceDisagrees(pair) ==
    /\ pair[1] \in DOMAIN merged_before.group_types
    /\ merged_before.group_types[pair[1]].kind = "Choice"
    /\ \/ input_xsd.group_types[pair[2]].kind = "Sequence"
       \/ input_xsd.group_types[pair[2]].amount
              # merged_before.group_types[pair[1]].amount

\* C24: when merge reconciles a base Choice group with an incoming group
\* that is a Sequence or a Choice of another multiplicity, the call ends in
\* a hard error and does not return Ok with one side's shape kept.
C24_ChoiceDisagreementIsHardError ==
    \A pair \in ReconciledGroups :
        ChoiceDisagrees(pair) => merge_status \in {"err", "panicked"}

\* ---- claims about flatten_choice ----

\* the group `name` of the grammar is a choice with the one item `Group`,
\* which refers to a sequence group of `n` plain elements
ChoiceOfOneSequence(data, name, n) ==
    /\ name \in DOMAIN data.groups
    /\ data.groups[name].kind = "Choice"
    /\ Len(data.groups[name].choice.items) = 1
    /\ data.groups[name].choice.items[1].kind = "Group"
    /\ data.groups[name].choice.items[1].group_ref \in DOMAIN data.groups
    /\ LET inner == data.groups[data.groups[name].choice.items[1].group_ref]
       IN  /\ inner.kind = "Sequence"
           /\ Len(inner.sequence.items) = n
           /\ \A i \in 1..n : inner.sequence.items[i].kind = "Element"

\* the elements of the sequence group that the one item of the choice names
InnerElements(data, name) ==
    LET inner == data.groups[data.groups[name].choice.items[1].group_ref]
    IN  [i \in 1..Len(inner.sequence.items) |->
            ElementNew(inner.sequence.items[i].xsd_element, data.version_info)]

\* the outcome of flatten_schema and the groups it produced
FlattenedGroups ==
    IF flatten_result # <<>> /\ flatten_result[1].status = "Ok"
    THEN flatten_result[1].value.group_types ELSE EmptyMap

\* C25: a choice that may repeat without bound and holds one nested
\* sequence group of two elements is flattened to a Choice of multiplicity
\* Any whose items are exactly those two elements in their order: no nested
\* sequence and no group reference is left.
C25_RepeatedChoiceSplicesSequence ==
    \A name \in DOMAIN FlattenedGroups :
        (/\ ChoiceOfOneSequence(flatten_data[1], name, 2)
         /\ flatten_data[1].groups[name].choice.max_occurs > 1)
            => /\ FlattenedGroups[name].kind = "Choice"
               /\ FlattenedGroups[name].amount = "Any"
               /\ FlattenedGroups[name].sub_elements = InnerElements(flatten_data[1], name)
               /\ \A i \in 1..Len(FlattenedGroups[name].sub_elements) :
                      FlattenedGroups[name].sub_elements[i].kind = "Element"

\* the choice group AR:H with occurrence 0..2 over the sequence group AR:K
\* was flattened
C25_Witness ==
    /\ ArH \in DOMAIN FlattenedGroups
    /\ ChoiceOfOneSequence(flatten_data[1], ArH, 2)
    /\ flatten_data[1].groups[ArH].choice.max_occurs > 1
    /\ flatten_data[1].groups[ArH].choice.items[1].group_ref = ArK
    /\ Len(FlattenedGroups[ArH].sub_elements) = 2
    /\ FlattenedGroups[ArH].sub_elements[1].name = NameA1

\* the multi-item sequence of the one candidate replaced the choice
ReplacedBySequence(name) ==
    /\ FlattenedGroups[name].kind = "Sequence"
    /\ FlattenedGroups[name].sub_elements = InnerElements(flatten_data[1], name)

\* the items of the one candidate were put into the choice, which stayed
SplicedIntoChoice(name) ==
    /\ FlattenedGroups[name].kind = "Choice"
    /\ FlattenedGroups[name].sub_elements = InnerElements(flatten_data[1], name)

\* C26 as stated: a choice whose one candidate is a sequence of more than
\* one item is flattened to that sequence, for every multiplicity of the
\* choice; when the candidate is a sequence of exactly one item, the item is
\* spliced into the choice.
C26_SingleCandidateAlwaysReplaced ==
    \A name \in DOMAIN FlattenedGroups :
        /\ ChoiceOfOneSequence(flatten_data[1], name, 2) => ReplacedBySequence(name)
        /\ ChoiceOfOneSequence(flatten_data[1], name, 1) => SplicedIntoChoice(name)

\* C26, amended: a choice whose one candidate is a sequence of more than one
\* item is flattened to that sequence when the multiplicity of the choice is
\* One or ZeroOrOne; when it is Any the items of the sequence are spliced
\* into the choice, which stays a Choice of multiplicity Any; when the
\* candidate is a sequence of exactly one item, the item is spliced into the
\* choice.
C26_SingleCandidateReplacedUnlessAny ==
    \A name \in DOMAIN FlattenedGroups :
        /\ ChoiceOfOneSequence(flatten_data[1], name, 2) =>
              IF flatten_data[1].groups[name].choice.max_occurs > 1
              THEN SplicedIntoChoice(name) /\ FlattenedGroups[name].amount = "Any"
              ELSE ReplacedBySequence(name)
        /\ ChoiceOfOneSequence(flatten_data[1], name, 1) =>
              /\ SplicedIntoChoice(name)
              /\ FlattenedGroups[name].amount
                    = occurs_to_amount(flatten_data[1].groups[name].choice.min_occurs,
                                       flatten_data[1].groups[name].choice.max_occurs)

\* the choice group AR:H with occurrence 0..1 over the sequence group AR:K
\* became the sequence of the two elements of AR:K
C26_Witness ==
    /\ ArH \in DOMAIN FlattenedGroups
    /\ ChoiceOfOneSequence(flatten_data[1], ArH, 2)
    /\ flatten_data[1].groups[ArH].choice.min_occurs = 0
    /\ flatten_data[1].groups[ArH].choice.max_occurs = 1
    /\ FlattenedGroups[ArH].kind = "Sequence"
    /\ Len(FlattenedGroups[ArH].sub_elements) = 2

\* ---- claims about the attributes of the root type ----

\* the element type that the one root element of the grammar refers to, as
\* flatten_schema returned it
RootTypeName == flatten_data[1].root_elements[1].typeref
FlattenedRootType == flatten_result[1].value.element_types[RootTypeName]

\* the attributes that the grammar gives the root type
GrammarRootAttributes ==
    flatten_complex_type(flatten_data[1], flatten_data[1].types[RootTypeName],
                         RootTypeName).value.attributes

\* xmlns, xmlns:xsi and xsi:schemaLocation: required, xsd:string, version bit
InjectedAttribute(attr, name) ==
    /\ attr.name = name
    /\ attr.attr_type = XsdString
    /\ attr.required = TRUE
    /\ attr.version_info = flatten_data[1].version_info

\* the attribute list is the one of the grammar followed by the three
CarriesInjectedAttributes(attributes) ==
    /\ Len(attributes) = Len(GrammarRootAttributes) + 3
    /\ SubSeq(attributes, 1, Len(GrammarRootAttributes)) = GrammarRootAttributes
    /\ InjectedAttribute(attributes[Len(attributes) - 2], NameXmlns)
    /\ InjectedAttribute(attributes[Len(attributes) - 1], NameXmlnsXsi)
    /\ InjectedAttribute(attributes[Len(attributes)], NameSchemaLocation)

\* flatten_schema returned Ok for a grammar whose root type is complex
FlattenedComplexRoot ==
    /\ flatten_result # <<>>
    /\ flatten_result[1].status = "Ok"
    /\ RootTypeName \in DOMAIN flatten_data[1].types
    /\ flatten_data[1].types[RootTypeName].kind = "Complex"

\* C27 as stated: after a successful flatten_schema the element type of the
\* one root element carries xmlns, xmlns:xsi and xsi:schemaLocation
\* (required, xsd:string, the version bit) after the attributes of the
\* grammar, whatever the name of that type.
C27_AnyRootTypeCarriesAttributes ==
    FlattenedComplexRoot => CarriesInjectedAttributes(FlattenedRootType.attributes)

\* C27, amended: the same for a root type that is named AR:AUTOSAR and is
\* flattened to an Elements type; a root type of another name or variant has
\* the attributes of the grammar only.
C27_AutosarRootTypeCarriesAttributes ==
    FlattenedComplexRoot =>
        IF RootTypeName = AR_AUTOSAR /\ FlattenedRootType.kind = "Elements"
        THEN CarriesInjectedAttributes(FlattenedRootType.attributes)
        ELSE FlattenedRootType.attributes = GrammarRootAttributes

\* the root type AR:AUTOSAR has an attribute of its own from the attribute
\* group AG and the three behind it
C27_Witness ==
    /\ FlattenedComplexRoot
    /\ RootTypeName = AR_AUTOSAR
    /\ FlattenedRootType.kind = "Elements"
    /\ Len(GrammarRootAttributes) = 1
    /\ Len(FlattenedRootType.attributes) = 4
    /\ FlattenedRootType.attributes[4].name = NameSchemaLocation

\* ======================================================================
\* main.rs, sanity_check
\* ======================================================================

\* the lines that sanity_check prints, each as (its kind, the group or type
\* it is about, the item index or the attribute name, the missing name)
sanity_check(types) ==
    UNION {{<<"element", groupname, i,
              types.group_types[groupname].sub_elements[i].typeref>> :
               i \in {j \in 1..Len(types.group_types[groupname].sub_elements) :
                         LET item == types.group_types[groupname].sub_elements[j]
                         IN  /\ item.kind = "Element"
                             /\ item.typeref \notin DOMAIN types.element_types}} :
           groupname \in DOMAIN types.group_types}
    \cup {<<"group_ref", typename, 0, types.element_types[typename].group_ref>> :
            typename \in {t \in DOMAIN types.element_types :
                /\ types.element_types[t].kind \in {"Elements", "Mixed"}
                /\ types.element_types[t].group_ref
                       \notin DOMAIN types.group_types}}
    \cup UNION {{<<"attribute", typename,
                   types.element_types[typename].attributes[i].name,
                   types.element_types[typename].attributes[i].attr_type>> :
                    i \in {j \in 1..Len(types.element_types[typename].attributes) :
                              types.element_types[typename].attributes[j].attr_type
                                  \notin DOMAIN types.character_types}} :
                typename \in DOMAIN types.element_types}

\* names that the drawn schemas leave undefined
MissingType == <<77>>
MissingGroup == <<90>>
MissingCharType == <<81>>

\* a schema over the root type AR:AUTOSAR (group G, one attribute), the
\* character content type S, the mixed type T (group H) and the two groups,
\* with each of its references drawn
SanitySchema(root_group, root_attr, s_base, t_group, t_base, x_type, g_ref, h_type) ==
    AutosarDataTypes(
        (AR_AUTOSAR :> ElementsType(root_group, <<Attribute(NameA1, root_attr, TRUE, 1)>>,
                                    {AR_AUTOSAR}))
          @@ (NameS :> CharactersType(<<>>, s_base))
          @@ (NameT :> MixedType(t_group, <<>>, t_base)),
        (NameE :> EnumType(NameE, <<EnumItem(<<112>>, 1)>>))
          @@ (NameS :> StringType(<<>>, FALSE)),
        (NameG :> SequenceGroup(<<>>, <<ElementItem(SHORT_NAME, NameS, "One", 1),
                                        ElementItem(NameX, x_type, "Any", 1),
                                        GroupRefItem(g_ref)>>))
          @@ (NameH :> ChoiceGroup(<<>>, <<ElementItem(NameY, h_type, "One", 1)>>, "Any")))
SanitySchemas ==
    {SanitySchema(root_group, root_attr, s_base, t_group, t_base, x_type, g_ref, h_type) :
        root_group \in {NameG, MissingGroup}, root_attr \in {NameE, MissingCharType},
        s_base \in {NameS, MissingCharType}, t_group \in {NameH, MissingGroup},
        t_base \in {NameE, MissingCharType}, x_type \in {NameT, MissingType},
        g_ref \in {NameH, MissingGroup}, h_type \in {AR_AUTOSAR, MissingType}}

InitSanity ==
    /\ sanity_types \in {<<schema>> : schema \in SanitySchemas}
    /\ sanity_output = {}
    /\ sanity_pc = "call"
    /\ IdleAmount /\ IdleHash /\ IdleLookup /\ IdleDedup /\ IdleMerge /\ IdleCore
    /\ IdleFlatten /\ IdleInsert

\* main.rs 245, 251, 255: sanity_check(&autosar_schema); the schema is
\* borrowed immutably and nothing in the body can panic
SanityCheck ==
    /\ sanity_pc = "call"
    /\ sanity_output' = sanity_check(sanity_types[1])
    /\ sanity_pc' = "returned"
    /\ UNCHANGED sanity_types
    /\ UNCHANGED <<varsAmount, varsHash, varsLookup, varsDedup, varsMerge, varsCore, varsFlatten, varsInsert>>

NextSanity == SanityCheck
SpecSanity == InitSanity /\ [][NextSanity]_vars

\* ---- claims about sanity_check ----

\* the missing names that the printed lines mention
ReportedNames == {line[4] : line \in sanity_output}

\* C28: sanity_check returns, and its output names every reference of the
\* schema that does not resolve: the type of an element item, the group of
\* a group-reference item, the group of an element type, the character
\* type of an attribute and the basetype of an element type.
C28_EveryDanglingReferenceReported ==
    sanity_pc = "returned" =>
        \A ref \in DanglingRefs(sanity_types[1]) :
            \E line \in sanity_output : line[2] = ref[2] /\ line[4] = ref[3]

\* ---- claims about the two implementations of dedup_types ----

\* what the implementation that was not called makes of the same schema
OtherDedupOutcome ==
    IF dedup_impl = "dedup.rs" THEN dedup_types_main(dedup_before, <<>>)
    ELSE dedup_types(dedup_before)

\* C30: on every schema on which dedup.rs dedup_types (character types
\* once, then the loop over groups and element types) and main.rs
\* dedup_types (the three maps in one loop) both return, they leave the
\* same schema.
C30_BothDedupsAgree ==
    (dedup_calls > 0 /\ dedup_status = "returned"
        /\ OtherDedupOutcome.status = "returned")
        => OtherDedupOutcome.types = autosar_types

\* dedup.rs dedup_types removed a character type up front and then needed
\* two passes that replaced something; main.rs dedup_types, on the same
\* schema, found the character type and the first element types in one pass
C30_Witness ==
    /\ dedup_calls = 1 /\ dedup_impl = "dedup.rs" /\ dedup_status = "returned"
    /\ OtherDedupOutcome.status = "returned"
    /\ DOMAIN dedup_log[1].chars # {}
    /\ Len(dedup_log) = 4
    /\ Len(OtherDedupOutcome.log) < Len(dedup_log)
    /\ DOMAIN OtherDedupOutcome.log[1].chars # {}
    /\ autosar_types # dedup_before

====
